---- MODULE Spec2Model ----
(***************************************************************************)
(* A model of the taint-remover controller                                 *)
(* (internal/controller/taintremover_controller.go, second revision of     *)
(* the file, lines 294-630): the aggregation of the taints declared by the *)
(* TaintRemover objects, the per-node diff, the full pass (Reconcile) and  *)
(* the single-node pass (applyRemoveTaintOnNode), run against a cluster    *)
(* whose nodes and TaintRemover objects other actors change at any time.   *)
(*                                                                         *)
(* A taint is a record [key, value, effect].  A Go slice is a sequence;    *)
(* a nil slice and an empty slice are both << >>.  An error is a string,   *)
(* "nil" being the nil error.                                              *)
(***************************************************************************)
EXTENDS Integers, Naturals, Sequences, FiniteSets, TLC

VARIABLES
    nodes,      \* the stored Node objects: name -> Spec.Taints
    removers,   \* the stored TaintRemover objects, in listing order: Seq of Spec.Taints
    full,       \* the Reconcile call in progress (its locals and position)
    incr,       \* the applyRemoveTaintOnNode call in progress
    ext,        \* number of changes other actors made so far
    unit        \* a call of one function of the controller on chosen inputs

vars == <<nodes, removers, full, incr, ext, unit>>

----------------------------------------------------------------------------
(* Bounds of the model *)

MaxTaints   == 2   \* taints on one node
MaxRemovers == 2   \* TaintRemover objects
MaxSpecs    == 2   \* taints declared by one TaintRemover
MaxDeclared == 2   \* taints declared by all TaintRemover objects together
MaxExt      == 1   \* changes by other actors in one behaviour
MaxClusterRemovers == 1   \* TaintRemover objects of the cluster under the passes
MaxDisturb  == 2   \* node changes by other actors and failed calls together

(* Keys and effects are arbitrary strings for the controller (the CRD      *)
(* types them "string"); the universe holds two pairs whose "key:effect"   *)
(* strings coincide.                                                       *)
Keys    == {"foo", "foo:x"}
Effects == {"NoSchedule", "x:NoSchedule"}
Values  == {"", "bar"}

Taint(k, v, e) == [key |-> k, value |-> v, effect |-> e]

Taints == {Taint(k, v, e) : k \in Keys, v \in Values, e \in Effects}

\* All sequences over S of length at most n.
SeqsUpTo(S, n) == UNION {[1..m -> S] : m \in 0..n}

Pair(t) == <<t.key, t.effect>>

\* No two taints of the list have the same key and the same effect.
UniquePairs(ts) ==
    \A i, j \in 1..Len(ts) : Pair(ts[i]) = Pair(ts[j]) => i = j

----------------------------------------------------------------------------
(* internal/taints: TaintExists and DeleteTaint (and corev1's MatchTaint,  *)
(* which they use).                                                        *)

\* Taint.MatchTaint: same key and same effect; the value is not looked at.
MatchTaint(t, taintToMatch) ==
    t.key = taintToMatch.key /\ t.effect = taintToMatch.effect

\* TaintExists: some taint of the list matches taintToFind.
TaintExists(taints, taintToFind) ==
    \E i \in 1..Len(taints) : MatchTaint(taints[i], taintToFind)

\* Index of the first taint of the list that matches, 0 when none does.
FirstMatch(taints, taintToDelete) ==
    IF TaintExists(taints, taintToDelete)
    THEN CHOOSE i \in 1..Len(taints) :
            /\ MatchTaint(taints[i], taintToDelete)
            /\ \A j \in 1..(i - 1) : ~MatchTaint(taints[j], taintToDelete)
    ELSE 0

\* DeleteTaint: the list without the first taint that matches taintToDelete,
\* and whether one was taken out.
DeleteTaint(taints, taintToDelete) ==
    LET i == FirstMatch(taints, taintToDelete)
    IN  IF i = 0
        THEN <<taints, FALSE>>
        ELSE <<SubSeq(taints, 1, i - 1) \o SubSeq(taints, i + 1, Len(taints)), TRUE>>

----------------------------------------------------------------------------
(* The diff: makeNewTaintsForNode *)

Node(name, taints) == [name |-> name, taints |-> taints]

\* A nil *corev1.Node.
NilNode == Node("<nil>", << >>)

\* The loop of makeNewTaintsForNode from the i-th taint to remove on.
RECURSIVE makeNewTaintsLoop(_, _, _, _)
makeNewTaintsLoop(nodeTaints, deleted, taints, i) ==
    IF i > Len(taints)
    THEN <<nodeTaints, deleted>>
    ELSE IF ~TaintExists(nodeTaints, taints[i])
         THEN makeNewTaintsLoop(nodeTaints, deleted, taints, i + 1)
         ELSE LET r == DeleteTaint(nodeTaints, taints[i])
              IN  makeNewTaintsLoop(r[1], deleted \/ r[2], taints, i + 1)

\* A diff that takes out every taint that matches, not the first only.
makeNewTaintsForNodeAllMatches(target, taints) ==
    IF target = NilNode
    THEN <<<< >>, FALSE>>
    ELSE LET keep == SelectSeq(target.taints,
                               LAMBDA t : \A i \in 1..Len(taints) : ~MatchTaint(t, taints[i]))
         IN  <<keep, Len(keep) < Len(target.taints)>>

\* A diff that compares the whole taint, value included.
makeNewTaintsForNodeByValue(target, taints) ==
    IF target = NilNode
    THEN <<<< >>, FALSE>>
    ELSE LET keep == SelectSeq(target.taints,
                               LAMBDA t : \A i \in 1..Len(taints) : taints[i] # t)
         IN  <<keep, Len(keep) < Len(target.taints)>>

\* A diff that reports a change whenever the node has taints.
makeNewTaintsForNodeAlwaysChanged(target, taints) ==
    IF target = NilNode
    THEN <<<< >>, FALSE>>
    ELSE <<makeNewTaintsLoop(target.taints, FALSE, taints, 1)[1], Len(target.taints) > 0>>

makeNewTaintsForNode(target, taints) ==
    IF target = NilNode
    THEN <<<< >>, FALSE>>
    ELSE makeNewTaintsLoop(target.taints, FALSE, taints, 1)

----------------------------------------------------------------------------
(* The aggregation: getAllTaintsToRemove (the part after the List call) *)

\* fmt.Sprintf("%s:%s", t.Key, t.Effect)
taintKey(t) == t.key \o ":" \o t.effect

\* The two nested loops over removers.Items and v.Spec.Taints, from taint j
\* of object i on; uniqueTaintKeys is the set of strings seen so far.
RECURSIVE collectLoop(_, _, _, _, _)
collectLoop(items, i, j, uniqueTaintKeys, taints) ==
    IF i > Len(items)
    THEN taints
    ELSE IF j > Len(items[i])
         THEN collectLoop(items, i + 1, 1, uniqueTaintKeys, taints)
         ELSE LET t == items[i][j]
              IN  IF taintKey(t) \in uniqueTaintKeys
                  THEN collectLoop(items, i, j + 1, uniqueTaintKeys, taints)
                  ELSE collectLoop(items, i, j + 1,
                                   uniqueTaintKeys \cup {taintKey(t)},
                                   Append(taints, t))

\* What getAllTaintsToRemove returns for the listed items (nil for no item).
getAllTaintsToRemove(items) ==
    IF Len(items) < 1
    THEN << >>
    ELSE collectLoop(items, 1, 1, {}, << >>)

----------------------------------------------------------------------------
(* The cluster as the client shows it *)

\* The nodes, in the order List returns them.
NodeOrder == <<"n1", "n2", "n3">>
NodeNames == {NodeOrder[i] : i \in 1..Len(NodeOrder)}

\* The nodes a cluster under both passes and the other actors has.
ClusterNodes == {"n1", "n2"}

\* Taints the nodes of the cluster carry, and taints the TaintRemover
\* objects of the cluster declare.
ClusterTaints   == {Taint("foo", "bar", "NoSchedule"), Taint("not-ready", "", "NoSchedule")}
DeclaredTaints  == {Taint("foo", "", "NoSchedule")}

\* The TaintRemover objects of the cluster: one declares no taint, the
\* others one taint.
ClusterRemovers == {<< >>} \cup {<<t>> : t \in DeclaredTaints}

\* The Items of the NodeList a List call returns now.
NodeListItems ==
    LET present == SelectSeq(NodeOrder, LAMBDA n : n \in DOMAIN nodes)
    IN  [i \in 1..Len(present) |-> Node(present[i], nodes[present[i]])]

\* A selection that takes every listed node, with taints or without.
getTaintedNodesUnfiltered(items) == items

\* getTaintedNodes, after its List call succeeded: a copy of every listed
\* node that has taints.
getTaintedNodes(items) == SelectSeq(items, LAMBDA v : Len(v.taints) > 0)

\* Patches made for every node given, changed or not.
makePatchesForAll(ns, taints) ==
    [i \in 1..Len(ns) |->
        [node |-> ns[i], patch |-> makeNewTaintsForNode(ns[i], taints)[1]]]

\* Patches that clear the taints of the node.
makePatchesClearAll(ns, taints) ==
    LET need == SelectSeq(ns, LAMBDA n : makeNewTaintsForNode(n, taints)[2])
    IN  [i \in 1..Len(need) |-> [node |-> need[i], patch |-> << >>]]

\* Patches made against the TaintRemover objects as they are now, not
\* against the taints the pass collected.
makePatchesRelisting(ns, taints) ==
    LET now  == getAllTaintsToRemove(removers)
        need == SelectSeq(ns, LAMBDA n : makeNewTaintsForNode(n, now)[2])
    IN  [i \in 1..Len(need) |->
            [node |-> need[i], patch |-> makeNewTaintsForNode(need[i], now)[1]]]

\* Patches made in the reverse of the order of the nodes given.
makePatchesReversed(ns, taints) ==
    LET need == SelectSeq(ns, LAMBDA n : makeNewTaintsForNode(n, taints)[2])
    IN  [i \in 1..Len(need) |->
            [node  |-> need[Len(need) + 1 - i],
             patch |-> makeNewTaintsForNode(need[Len(need) + 1 - i], taints)[1]]]

\* makePatches: one entry per node whose diff reports a change.
makePatches(ns, taints) ==
    LET need == SelectSeq(ns, LAMBDA n : makeNewTaintsForNode(n, taints)[2])
    IN  [i \in 1..Len(need) |->
            [node |-> need[i], patch |-> makeNewTaintsForNode(need[i], taints)[1]]]

NoErr    == "nil"
NotFound == "not found"
ListErr  == "list failure"
GetErr   == "get failure"
PatchErr(name) == "patch failure: " \o name
Canceled == "context canceled"

\* A call of the client: Get, List or Patch, the node it names ("" for a
\* List) and the error it returned.
Call(op, name, err) == [op |-> op, node |-> name, err |-> err]

\* The events the node handler is called with: the object of the event (for
\* an Update the new object) and, for an Update, the old object.
NoEvent == [kind |-> "none", object |-> "", objectOld |-> ""]
NodeEvents ==
    {[kind |-> k, object |-> n, objectOld |-> IF k = "Update" THEN o ELSE ""] :
        k \in {"Create", "Update", "Delete", "Generic"}, n \in ClusterNodes, o \in ClusterNodes}

\* A call of Reconcile or applyRemoveTaintOnNode that has not started.
Idle ==
    [pc |-> "idle", name |-> "", taints |-> << >>, nodes |-> << >>,
     patches |-> << >>, i |-> 1, removed |-> 0, lastErr |-> NoErr, err |-> NoErr,
     calls |-> << >>, clean |-> TRUE, ctx |-> "live", events |-> {},
     prev |-> << >>, written |-> {}, evt |-> NoEvent, queued |-> << >>,
     req |-> ""]

\* The error of a failed Patch of the node n in the pass p: with the context
\* of the pass canceled the client returns the cancellation error.
patchFailure(p, n) == IF p.ctx = "canceled" THEN Canceled ELSE PatchErr(n)

\* The call p made one more client call.
Logged(p, call) == [p EXCEPT !.calls = Append(p.calls, call)]

\* The call returns err.
Return(p, err) == [p EXCEPT !.pc = "done", !.err = err]

\* patchNodesToRemoveTaints starts: the patches are made, the loop is entered.
\* With no patch to apply the loop ends at once and (0, nil) is returned.
patchNodesToRemoveTaints(p, ns, taints) ==
    LET patches == makePatches(ns, taints)
    IN  [p EXCEPT !.pc = IF Len(patches) = 0 THEN "done" ELSE "patch",
                  !.taints = taints, !.nodes = ns, !.patches = patches,
                  !.i = 1, !.removed = 0, !.lastErr = NoErr, !.err = NoErr]

\* A loop that counts the taints it removed, not the nodes.
patchLoopStepCountsTaints(p, ok) ==
    LET e       == p.patches[p.i]
        n       == e.node.name
        lastErr == IF ok THEN p.lastErr ELSE patchFailure(p, n)
    IN  [p EXCEPT !.i = p.i + 1,
                  !.removed = IF ok
                              THEN p.removed + Len(e.node.taints) - Len(e.patch)
                              ELSE p.removed,
                  !.lastErr = lastErr,
                  !.pc = IF p.i + 1 > Len(p.patches) THEN "done" ELSE "patch",
                  !.err = lastErr,
                  !.calls = Append(p.calls,
                                   Call("Patch", n, IF ok THEN NoErr ELSE patchFailure(p, n)))]

\* A loop that keeps the error of the first failed Patch.
patchLoopStepFirstError(p, ok) ==
    LET n       == p.patches[p.i].node.name
        lastErr == IF ok \/ p.lastErr # NoErr THEN p.lastErr ELSE patchFailure(p, n)
    IN  [p EXCEPT !.i = p.i + 1,
                  !.removed = IF ok THEN p.removed + 1 ELSE p.removed,
                  !.lastErr = lastErr,
                  !.pc = IF p.i + 1 > Len(p.patches) THEN "done" ELSE "patch",
                  !.err = lastErr,
                  !.calls = Append(p.calls,
                                   Call("Patch", n, IF ok THEN NoErr ELSE patchFailure(p, n)))]

\* A loop that stops at the first failed Patch.
patchLoopStepStopOnError(p, ok) ==
    LET n == p.patches[p.i].node.name
    IN  IF ok
        THEN [p EXCEPT !.i = p.i + 1, !.removed = p.removed + 1,
                       !.pc = IF p.i + 1 > Len(p.patches) THEN "done" ELSE "patch",
                       !.err = p.lastErr,
                       !.calls = Append(p.calls, Call("Patch", n, NoErr))]
        ELSE [p EXCEPT !.i = p.i + 1, !.lastErr = patchFailure(p, n), !.pc = "done",
                       !.err = patchFailure(p, n),
                       !.calls = Append(p.calls, Call("Patch", n, patchFailure(p, n)))]

\* A loop that returns the error of the last Patch only.
patchLoopStepLastOnly(p, ok) ==
    LET n       == p.patches[p.i].node.name
        lastErr == IF ok THEN NoErr ELSE patchFailure(p, n)
    IN  [p EXCEPT !.i = p.i + 1,
                  !.removed = IF ok THEN p.removed + 1 ELSE p.removed,
                  !.lastErr = lastErr,
                  !.pc = IF p.i + 1 > Len(p.patches) THEN "done" ELSE "patch",
                  !.err = lastErr,
                  !.calls = Append(p.calls,
                                   Call("Patch", n, IF ok THEN NoErr ELSE patchFailure(p, n)))]

\* A loop that tries the same entry again after a failed Patch.
patchLoopStepRetry(p, ok) ==
    LET n       == p.patches[p.i].node.name
        lastErr == IF ok THEN p.lastErr ELSE patchFailure(p, n)
        i       == IF ok THEN p.i + 1 ELSE p.i
    IN  [p EXCEPT !.i = i,
                  !.removed = IF ok THEN p.removed + 1 ELSE p.removed,
                  !.lastErr = lastErr,
                  !.pc = IF i > Len(p.patches) THEN "done" ELSE "patch",
                  !.err = lastErr,
                  !.calls = Append(p.calls,
                                   Call("Patch", n, IF ok THEN NoErr ELSE patchFailure(p, n)))]

\* One turn of the loop of patchNodesToRemoveTaints: the Patch of entry i
\* succeeded (ok) or failed; after the last entry (removed, lastErr) is returned.
patchLoopStep(p, ok) ==
    LET n       == p.patches[p.i].node.name
        lastErr == IF ok THEN p.lastErr ELSE patchFailure(p, n)
    IN  [p EXCEPT !.i = p.i + 1,
                  !.removed = IF ok THEN p.removed + 1 ELSE p.removed,
                  !.lastErr = lastErr,
                  !.pc = IF p.i + 1 > Len(p.patches) THEN "done" ELSE "patch",
                  !.err = lastErr,
                  !.calls = Append(p.calls,
                                   Call("Patch", n, IF ok THEN NoErr ELSE patchFailure(p, n)))]

\* A Patch that merges: the taints the node got since it was read stay.
PatchedMerging(p, ok) ==
    LET e    == p.patches[p.i]
        kept == SelectSeq(nodes[e.node.name],
                          LAMBDA t : \A j \in 1..Len(e.node.taints) : e.node.taints[j] # t)
    IN  IF ok
        THEN [nodes EXCEPT ![e.node.name] = e.patch \o kept]
        ELSE nodes

\* The stored nodes after the Patch of entry i of p was applied (ok) or not.
Patched(p, ok) ==
    IF ok
    THEN [nodes EXCEPT ![p.patches[p.i].node.name] = p.patches[p.i].patch]
    ELSE nodes

\* What a write that takes the stored nodes from `nodes` to new leaves behind:
\* <<name, taints>> of every node it created or changed.
Writes(new) ==
    {<<n, new[n]>> : n \in {m \in DOMAIN new : m \notin DOMAIN nodes \/ nodes[m] # new[m]}}

\* The call p after the stored nodes went from `nodes` to new by the hand of
\* someone else: p no longer runs undisturbed.
Disturbed(p, new) ==
    IF p.pc = "idle" \/ new = nodes THEN p ELSE [p EXCEPT !.clean = FALSE]

\* The same when someone else is another actor: the written field keeps what
\* the other actors wrote while p ran (a record for the properties; the code
\* has no such thing).
DisturbedByOthers(p, new) ==
    IF p.pc = "idle" \/ new = nodes
    THEN p
    ELSE [p EXCEPT !.clean = FALSE, !.written = @ \cup Writes(new)]

----------------------------------------------------------------------------
(* The inputs the model draws from *)

RECURSIVE Sum(_)
Sum(s) == IF Len(s) = 0 THEN 0 ELSE s[1] + Sum(Tail(s))

\* How many taints each TaintRemover object declares.
Shapes == {sh \in SeqsUpTo(0..MaxSpecs, MaxRemovers) : Sum(sh) <= MaxDeclared}

\* The declared taints flat, cut into objects of the sizes sh.
Split(flat, sh) ==
    [i \in 1..Len(sh) |->
        SubSeq(flat, Sum(SubSeq(sh, 1, i - 1)) + 1, Sum(SubSeq(sh, 1, i)))]

\* The lists of TaintRemover objects declaring taints of U.
RemoverListsOver(U) ==
    UNION {{Split(flat, sh) : flat \in [1..Sum(sh) -> U]} : sh \in Shapes}

\* The taint lists of stored nodes: the API server admits no node whose
\* taints repeat a (key, effect) pair.
ClusterTaintLists  == {ts \in SeqsUpTo(ClusterTaints, MaxTaints) : UniquePairs(ts)}
ClusterRemoverLists == SeqsUpTo(ClusterRemovers, MaxClusterRemovers)

----------------------------------------------------------------------------
(* Reconcile: the full pass *)

\* A Reconcile that lists the nodes whether a taint is declared or not.
ReconcileListRemoversThenAlwaysNodes ==
    /\ full.pc \in {"idle", "done"}
    /\ \E ok \in BOOLEAN :
         LET call   == Call("ListRemovers", "", IF ok THEN NoErr ELSE ListErr)
             taints == getAllTaintsToRemove(removers)
         IN  full' = IF ~ok
                     THEN Return(Logged(Idle, call), ListErr)
                     ELSE [Idle EXCEPT !.pc = "listNodes", !.taints = taints,
                                       !.calls = <<call>>]
    /\ UNCHANGED <<nodes, removers, incr, ext, unit>>

\* Line 377: getAllTaintsToRemove, whose List of the TaintRemover objects
\* fails or succeeds; with no taint to remove Reconcile returns nil.
ReconcileListRemovers ==
    /\ full.pc \in {"idle", "done"}
    /\ \E ok \in BOOLEAN :
         LET call   == Call("ListRemovers", "", IF ok THEN NoErr ELSE ListErr)
             taints == getAllTaintsToRemove(removers)
         IN  full' = IF ~ok
                     THEN Return(Logged(Idle, call), ListErr)
                     ELSE IF Len(taints) < 1
                          THEN Return(Logged(Idle, call), NoErr)
                          ELSE [Idle EXCEPT !.pc = "listNodes", !.taints = taints,
                                            !.calls = <<call>>]
    /\ UNCHANGED <<nodes, removers, incr, ext, unit>>

\* A pass that reports an error when no node has taints.
reconcileNodesNoneIsError(p, ok, items) ==
    LET call == Call("ListNodes", "", IF ok THEN NoErr ELSE ListErr)
        ns   == getTaintedNodes(items)
    IN  IF ~ok \/ Len(ns) < 1
        THEN Return(Logged(p, call), ListErr)
        ELSE patchNodesToRemoveTaints(Logged(p, call), ns, p.taints)

\* A pass that takes a failed List of the nodes for a cluster without nodes.
reconcileNodesDropsListError(p, ok, items) ==
    LET call == Call("ListNodes", "", IF ok THEN NoErr ELSE ListErr)
        ns   == IF ok THEN getTaintedNodes(items) ELSE << >>
    IN  IF Len(ns) < 1
        THEN Return(Logged(p, call), NoErr)
        ELSE patchNodesToRemoveTaints(Logged(p, call), ns, p.taints)

\* Lines 387-397 of Reconcile: getTaintedNodes, whose List of the nodes fails
\* (ok is FALSE) or returns items; with no tainted node Reconcile returns nil,
\* else patchNodesToRemoveTaints starts.
reconcileNodes(p, ok, items) ==
    LET call == Call("ListNodes", "", IF ok THEN NoErr ELSE ListErr)
        ns   == getTaintedNodes(items)
    IN  IF ~ok
        THEN Return(Logged(p, call), ListErr)
        ELSE IF Len(ns) < 1
             THEN Return(Logged(p, call), NoErr)
             ELSE patchNodesToRemoveTaints(Logged(p, call), ns, p.taints)

ReconcileListNodes ==
    /\ full.pc = "listNodes"
    /\ \E ok \in BOOLEAN : full' = reconcileNodes(full, ok, NodeListItems)
    /\ UNCHANGED <<nodes, removers, incr, ext, unit>>

\* Lines 541-551: the Patch of the next entry; it fails when the node is gone
\* or the context of the pass is canceled, and may fail for any other reason.
ReconcilePatch ==
    /\ full.pc = "patch"
    /\ \E ok \in BOOLEAN :
         /\ ok => (full.patches[full.i].node.name \in DOMAIN nodes /\ full.ctx = "live")
         /\ full' = patchLoopStep(full, ok)
         /\ nodes' = Patched(full, ok)
         /\ incr' = Disturbed(incr, Patched(full, ok))
    /\ UNCHANGED <<removers, ext, unit>>

----------------------------------------------------------------------------
(* applyRemoveTaintOnNode: the pass for one node, started by a node event *)

\* A lookup that returns the node whether it has taints or not.
getNodeWithoutCheck(name, getOk) ==
    IF ~getOk
    THEN <<NilNode, GetErr>>
    ELSE IF name \notin DOMAIN nodes
         THEN <<NilNode, NotFound>>
         ELSE <<Node(name, nodes[name]), NoErr>>

\* getNodeAndCheckTaints: <<found, err>>; getOk is FALSE when Get fails for
\* another reason than the node being gone.
getNodeAndCheckTaints(name, getOk) ==
    IF ~getOk
    THEN <<NilNode, GetErr>>
    ELSE IF name \notin DOMAIN nodes
         THEN <<NilNode, NotFound>>
         ELSE IF Len(nodes[name]) < 1
              THEN <<NilNode, NoErr>>
              ELSE <<Node(name, nodes[name]), NoErr>>

\* A lookup that takes a node that is gone for a node without taints.
applyGetNotFoundIsNil(p, name, getOk) ==
    LET r    == getNodeAndCheckTaints(name, getOk)
        call == Call("Get", name, r[2])
    IN  IF r[1] = NilNode
        THEN Return(Logged(p, call), IF r[2] = NotFound THEN NoErr ELSE r[2])
        ELSE [p EXCEPT !.pc = "listRemovers", !.nodes = <<r[1]>>, !.calls = <<call>>]

\* A pass that returns nil whenever no node came back.
applyGetDropsError(p, name, getOk) ==
    LET r    == getNodeAndCheckTaints(name, getOk)
        call == Call("Get", name, r[2])
    IN  IF r[1] = NilNode
        THEN Return(Logged(p, call), NoErr)
        ELSE [p EXCEPT !.pc = "listRemovers", !.nodes = <<r[1]>>, !.calls = <<call>>]

\* Lines 419-425 of applyRemoveTaintOnNode for the node called name.
applyGet(p, name, getOk) ==
    LET r    == getNodeAndCheckTaints(name, getOk)
        call == Call("Get", name, r[2])
    IN  IF r[2] # NoErr \/ r[1] = NilNode
        THEN Return(Logged(p, call), r[2])
        ELSE [p EXCEPT !.pc = "listRemovers", !.nodes = <<r[1]>>, !.calls = <<call>>]

\* nodeHandler.Create and nodeHandler.Update: applyRemoveTaintOnNode is called
\* with the object of the event, and begins with the Get of the node.
NodeEvent ==
    /\ incr.pc \in {"idle", "done"}
    /\ \E name \in ClusterNodes, getOk \in BOOLEAN :
         incr' = applyGet([Idle EXCEPT !.name = name], name, getOk)
    /\ UNCHANGED <<nodes, removers, full, ext, unit>>

Create == NodeEvent
Update == NodeEvent

\* Lines 426-433: getAllTaintsToRemove, then patchNodesToRemoveTaints starts.
ApplyListRemovers ==
    /\ incr.pc = "listRemovers"
    /\ \E ok \in BOOLEAN :
         LET call == Call("ListRemovers", "", IF ok THEN NoErr ELSE ListErr)
         IN  incr' = IF ~ok
                     THEN Return(Logged(incr, call), ListErr)
                     ELSE patchNodesToRemoveTaints(Logged(incr, call), incr.nodes,
                                                   getAllTaintsToRemove(removers))
    /\ UNCHANGED <<nodes, removers, full, ext, unit>>

\* Lines 541-551, called from applyRemoveTaintOnNode.
ApplyPatch ==
    /\ incr.pc = "patch"
    /\ \E ok \in BOOLEAN :
         /\ ok => (incr.patches[incr.i].node.name \in DOMAIN nodes /\ incr.ctx = "live")
         /\ incr' = patchLoopStep(incr, ok)
         /\ nodes' = Patched(incr, ok)
         /\ full' = Disturbed(full, Patched(incr, ok))
    /\ UNCHANGED <<removers, ext, unit>>

----------------------------------------------------------------------------
(* The other actors of the cluster *)

ExtWrite(new) ==
    /\ ext < MaxExt
    /\ new # nodes
    /\ nodes' = new
    /\ ext' = ext + 1
    /\ full' = DisturbedByOthers(full, new)
    /\ incr' = DisturbedByOthers(incr, new)
    /\ UNCHANGED <<removers, unit>>

\* Someone sets the taints of a node.
ExtSetTaints ==
    \E n \in DOMAIN nodes, ts \in ClusterTaintLists :
        ExtWrite([nodes EXCEPT ![n] = ts])

\* Someone deletes a node.
ExtDeleteNode ==
    \E n \in DOMAIN nodes :
        ExtWrite([m \in DOMAIN nodes \ {n} |-> nodes[m]])

\* Someone creates a node.
ExtCreateNode ==
    \E n \in ClusterNodes \ DOMAIN nodes, ts \in ClusterTaintLists :
        ExtWrite([m \in DOMAIN nodes \cup {n} |-> IF m = n THEN ts ELSE nodes[m]])

\* Someone creates, changes or deletes TaintRemover objects.
ExtSetRemovers ==
    /\ ext < MaxExt
    /\ \E rs \in ClusterRemoverLists : rs # removers /\ removers' = rs
    /\ ext' = ext + 1
    /\ UNCHANGED <<nodes, full, incr, unit>>

----------------------------------------------------------------------------
(* Calls of single functions *)

NoUnit == [fn |-> "none", items |-> << >>, target |-> NilNode, taints |-> << >>,
           out |-> << >>]

RemoverLists == RemoverListsOver(Taints)

\* The lists getAllTaintsToRemove can return.
RemovalSets == {getAllTaintsToRemove(rs) : rs \in RemoverLists}

Targets == {NilNode} \cup {Node("n1", ts) : ts \in SeqsUpTo(Taints, MaxTaints)}

\* The node lists makePatches is called with.
PatchTargets ==
    {<<Node("n1", ts)>> : ts \in ClusterTaintLists}
        \cup {<<Node("n1", ts), Node("n2", us)>> : ts \in ClusterTaintLists, us \in ClusterTaintLists}

\* A diff that stores its result in the node it was given.
inputsAfterDiffWritingBack(target, taints) ==
    IF target = NilNode
    THEN <<target, taints>>
    ELSE <<Node(target.name, makeNewTaintsForNode(target, taints)[1]), taints>>

\* The node and the taints to remove as makeNewTaintsForNode leaves them: it
\* works on the local nodeTaints and assigns neither to the node nor to the
\* taints to remove.
inputsAfterDiff(target, taints) == <<target, taints>>

\* getAllTaintsToRemove on the listed items.
UnitCollect ==
    /\ unit.fn = "getAllTaintsToRemove"
    /\ unit.out = << >>
    /\ unit' = [unit EXCEPT !.out = <<getAllTaintsToRemove(unit.items)>>]
    /\ UNCHANGED <<nodes, removers, full, incr, ext>>

\* makeNewTaintsForNode on the target.
UnitDiff ==
    /\ unit.fn = "makeNewTaintsForNode"
    /\ unit.out = << >>
    /\ unit' = [unit EXCEPT !.out = <<makeNewTaintsForNode(unit.target, unit.taints)>>,
                             !.target = inputsAfterDiff(unit.target, unit.taints)[1],
                             !.taints = inputsAfterDiff(unit.target, unit.taints)[2]]
    /\ UNCHANGED <<nodes, removers, full, incr, ext>>

\* makePatches on the nodes given: makeNewTaintsForNode on each.
UnitPatches ==
    /\ unit.fn = "makePatches"
    /\ unit.out = << >>
    /\ unit' = [unit EXCEPT !.out = <<makePatches(unit.items, unit.taints)>>,
                             !.items = [i \in 1..Len(unit.items) |->
                                           inputsAfterDiff(unit.items[i], unit.taints)[1]]]
    /\ UNCHANGED <<nodes, removers, full, incr, ext>>

\* makeNewTaintsForNode again, on the node with the taints the first call left.
UnitDiffAgain ==
    /\ unit.fn = "makeNewTaintsForNode"
    /\ Len(unit.out) = 1
    /\ unit.target # NilNode
    /\ unit' = [unit EXCEPT !.out = Append(unit.out,
                    makeNewTaintsForNode(Node(unit.target.name, unit.out[1][1]),
                                         unit.taints))]
    /\ UNCHANGED <<nodes, removers, full, incr, ext>>

----------------------------------------------------------------------------
(* The specifications *)

Init ==
    /\ nodes \in UNION {[D -> ClusterTaintLists] : D \in SUBSET ClusterNodes}
    /\ removers \in ClusterRemoverLists
    /\ full = Idle
    /\ incr = Idle
    /\ ext = 0
    /\ unit = NoUnit

Next ==
    \/ ReconcileListRemovers
    \/ ReconcileListNodes
    \/ ReconcilePatch
    \/ Create
    \/ Update
    \/ ApplyListRemovers
    \/ ApplyPatch
    \/ ExtSetTaints
    \/ ExtDeleteNode
    \/ ExtCreateNode
    \/ ExtSetRemovers

Spec == Init /\ [][Next]_vars

InitUnit ==
    /\ nodes = << >>
    /\ removers = << >>
    /\ full = Idle
    /\ incr = Idle
    /\ ext = 0
    /\ \/ unit \in {[NoUnit EXCEPT !.fn = "getAllTaintsToRemove", !.items = rs] :
                       rs \in RemoverLists}
              \cup {[NoUnit EXCEPT !.fn = "makeNewTaintsForNode", !.target = n, !.taints = r] :
                       n \in Targets, r \in RemovalSets}
       \/ unit \in {[NoUnit EXCEPT !.fn = "makePatches", !.items = ns, !.taints = r] :
                       ns \in PatchTargets, r \in RemovalSets}

NextUnit ==
    \/ UnitCollect
    \/ UnitDiff
    \/ UnitDiffAgain
    \/ UnitPatches

SpecUnit == InitUnit /\ [][NextUnit]_vars

\* patchNodesToRemoveTaints called on the nodes of a cluster of three nodes
\* with a list of taints to remove; nobody else acts.
BatchRemovalSets ==
    {getAllTaintsToRemove(rs) : rs \in RemoverListsOver(ClusterTaints)}

InitBatch ==
    /\ nodes \in [NodeNames -> ClusterTaintLists]
    /\ removers = << >>
    /\ \E taints \in BatchRemovalSets :
          full = patchNodesToRemoveTaints(Idle, NodeListItems, taints)
    /\ incr = Idle
    /\ ext = 0
    /\ unit = NoUnit

NextBatch == ReconcilePatch

SpecBatch == InitBatch /\ [][NextBatch]_vars

\* The context of the Reconcile call is canceled while the loop of
\* patchNodesToRemoveTaints runs.
CancelPass ==
    /\ full.pc = "patch"
    /\ full.ctx = "live"
    /\ full' = [full EXCEPT !.ctx = "canceled"]
    /\ UNCHANGED <<nodes, removers, incr, ext, unit>>

\* patchNodesToRemoveTaints under a context that may be canceled.
NextCancel ==
    \/ ReconcilePatch
    \/ CancelPass

SpecCancel == InitBatch /\ [][NextCancel]_vars

----------------------------------------------------------------------------
(* Reconcile run twice in a row over a cluster nobody else writes to: the   *)
(* second call is the one the manager makes after the first returned.  No   *)
(* state of the first call reaches the second; the prev field only records  *)
(* the client calls the first one made, so that the two can be compared.    *)

\* Lines 374-385 of a call that starts from the record start.
reconcileFrom(start, ok) ==
    LET call   == Call("ListRemovers", "", IF ok THEN NoErr ELSE ListErr)
        taints == getAllTaintsToRemove(removers)
    IN  IF ~ok
        THEN Return(Logged(start, call), ListErr)
        ELSE IF Len(taints) < 1
             THEN Return(Logged(start, call), NoErr)
             ELSE [start EXCEPT !.pc = "listNodes", !.taints = taints,
                                !.calls = <<call>>]

\* The first call of Reconcile.
RequeueFirst ==
    /\ full.pc = "idle"
    /\ \E ok \in BOOLEAN : full' = reconcileFrom(Idle, ok)
    /\ UNCHANGED <<nodes, removers, incr, ext, unit>>

\* Reconcile is called once more after it returned.
RequeueAgain ==
    /\ full.pc = "done"
    /\ full.prev = << >>
    /\ \E ok \in BOOLEAN :
         full' = reconcileFrom([Idle EXCEPT !.prev = full.calls], ok)
    /\ UNCHANGED <<nodes, removers, incr, ext, unit>>

InitRequeue ==
    /\ nodes \in [NodeNames -> ClusterTaintLists]
    /\ removers \in ClusterRemoverLists
    /\ full = Idle
    /\ incr = Idle
    /\ ext = 0
    /\ unit = NoUnit

NextRequeue ==
    \/ RequeueFirst
    \/ RequeueAgain
    \/ ReconcileListNodes
    \/ ReconcilePatch

SpecRequeue == InitRequeue /\ [][NextRequeue]_vars

----------------------------------------------------------------------------
(* Reconcile called twice with two requests, on two clusters in the same    *)
(* state, the client calls of the two having the same outcomes.  The two    *)
(* calls run side by side, full the one and incr the other; the two         *)
(* clusters stay alike as long as the calls do alike, so that the one store *)
(* stands for both.  The req field keeps the request of the call.           *)

\* The names of the TaintRemover objects listed, in order, and the names a
\* request can carry: those, and the name of an object that is gone.
RemoverNames == <<"r1", "r2">>
Requests     == {RemoverNames[i] : i \in 1..Len(RemoverNames)} \cup {"gone"}

\* The TaintRemover objects of the given name among those listed.
Named(req) ==
    SelectSeq([i \in 1..Len(removers) |-> [name |-> RemoverNames[i], taints |-> removers[i]]],
              LAMBDA r : r.name = req)

\* A Reconcile that takes the taints of the TaintRemover of its request only.
ReconcileOfNamedOnly(req, ok) ==
    LET call   == Call("ListRemovers", "", IF ok THEN NoErr ELSE ListErr)
        named  == Named(req)
        taints == getAllTaintsToRemove([i \in 1..Len(named) |-> named[i].taints])
    IN  IF ~ok
        THEN Return(Logged([Idle EXCEPT !.req = req], call), ListErr)
        ELSE IF Len(taints) < 1
             THEN Return(Logged([Idle EXCEPT !.req = req], call), NoErr)
             ELSE [Idle EXCEPT !.pc = "listNodes", !.taints = taints,
                               !.calls = <<call>>, !.req = req]

\* Line 374: the request is received and given no name; lines 377-385.
Reconcile(req, ok) == reconcileFrom([Idle EXCEPT !.req = req], ok)

TwoReconcile ==
    /\ full.pc = "idle"
    /\ incr.pc = "idle"
    /\ \E reqA, reqB \in Requests, ok \in BOOLEAN :
         /\ full' = Reconcile(reqA, ok)
         /\ incr' = Reconcile(reqB, ok)
    /\ UNCHANGED <<nodes, removers, ext, unit>>

TwoListNodes ==
    /\ full.pc = "listNodes"
    /\ incr.pc = "listNodes"
    /\ \E ok \in BOOLEAN :
         /\ full' = reconcileNodes(full, ok, NodeListItems)
         /\ incr' = reconcileNodes(incr, ok, NodeListItems)
    /\ UNCHANGED <<nodes, removers, ext, unit>>

TwoPatch ==
    /\ full.pc = "patch"
    /\ incr.pc = "patch"
    /\ \E ok \in BOOLEAN :
         /\ full' = patchLoopStep(full, ok)
         /\ incr' = patchLoopStep(incr, ok)
         /\ nodes' = Patched(full, ok)
    /\ UNCHANGED <<removers, ext, unit>>

InitRequest ==
    /\ nodes \in [ClusterNodes -> ClusterTaintLists]
    /\ removers \in RemoverListsOver(ClusterTaints)
    /\ full = Idle
    /\ incr = Idle
    /\ ext = 0
    /\ unit = NoUnit

NextRequest ==
    \/ TwoReconcile
    \/ TwoListNodes
    \/ TwoPatch

SpecRequest == InitRequest /\ [][NextRequest]_vars

----------------------------------------------------------------------------
(* The node handler alone: it is called with one event at a time.  The evt  *)
(* field of incr keeps the event of the last call and the queued field the  *)
(* requests a call put on the work queue it was given (records for the      *)
(* properties).                                                             *)

\* A handler that passes the old object of an Update.
routedOld(evt) == IF evt.kind = "Update" THEN evt.objectOld ELSE evt.object

\* The name of the object the handler passes to applyRemoveTaintOnNode:
\* evt.Object at line 612, evt.ObjectNew at line 618.
routed(evt) == evt.object

\* A handler that puts a request on the work queue when the Get of its pass
\* fails.
handleRequeueing(evt, getOk) ==
    LET p == applyGet([Idle EXCEPT !.name = routed(evt), !.evt = evt], routed(evt), getOk)
    IN  IF p.pc = "done" /\ p.err # NoErr
        THEN [p EXCEPT !.queued = <<routed(evt)>>]
        ELSE p

\* Lines 611-621: applyRemoveTaintOnNode is called with the object of the
\* event; its error is logged.  The queue is not used.
handle(evt, getOk) ==
    applyGet([Idle EXCEPT !.name = routed(evt), !.evt = evt], routed(evt), getOk)

\* Lines 623-629: nothing is done.
noOp(p, evt) == [p EXCEPT !.evt = evt]

nodeHandlerCreate ==
    /\ incr.pc \in {"idle", "done"}
    /\ \E evt \in NodeEvents, getOk \in BOOLEAN :
         /\ evt.kind = "Create"
         /\ incr' = handle(evt, getOk)
    /\ UNCHANGED <<nodes, removers, full, ext, unit>>

nodeHandlerUpdate ==
    /\ incr.pc \in {"idle", "done"}
    /\ \E evt \in NodeEvents, getOk \in BOOLEAN :
         /\ evt.kind = "Update"
         /\ incr' = handle(evt, getOk)
    /\ UNCHANGED <<nodes, removers, full, ext, unit>>

\* A Delete arm that does what the Create arm does.
nodeHandlerDeleteRunsPass ==
    /\ incr.pc \in {"idle", "done"}
    /\ \E evt \in NodeEvents, getOk \in BOOLEAN :
         /\ evt.kind = "Delete"
         /\ incr' = handle(evt, getOk)
    /\ UNCHANGED <<nodes, removers, full, ext, unit>>

nodeHandlerDelete ==
    /\ incr.pc \in {"idle", "done"}
    /\ \E evt \in NodeEvents :
         /\ evt.kind = "Delete"
         /\ incr' = noOp(incr, evt)
    /\ UNCHANGED <<nodes, removers, full, ext, unit>>

nodeHandlerGeneric ==
    /\ incr.pc \in {"idle", "done"}
    /\ \E evt \in NodeEvents :
         /\ evt.kind = "Generic"
         /\ incr' = noOp(incr, evt)
    /\ UNCHANGED <<nodes, removers, full, ext, unit>>

NextHandler ==
    \/ nodeHandlerCreate
    \/ nodeHandlerUpdate
    \/ nodeHandlerDelete
    \/ nodeHandlerGeneric
    \/ ApplyListRemovers
    \/ ApplyPatch
    \/ ExtSetTaints
    \/ ExtDeleteNode
    \/ ExtCreateNode
    \/ ExtSetRemovers

SpecHandler == Init /\ [][NextHandler]_vars

----------------------------------------------------------------------------
(* applyRemoveTaintOnNode called with an object that carries taints of its  *)
(* own: the node as the sender of the event saw it, which need not be the   *)
(* node as it is stored.  The evt field keeps the object.                   *)

\* The objects applyRemoveTaintOnNode is called with.
EventObjects == {Node(n, ts) : n \in ClusterNodes, ts \in ClusterTaintLists}

\* The record of a call with the object node.
CalledWith(node) ==
    [Idle EXCEPT !.name = node.name,
                 !.evt = [kind |-> "Create", object |-> node.name, objectOld |-> "",
                          taints |-> node.taints]]

\* A pass that takes the taints of the object it was called with for the
\* taints of the node.
applyRemoveTaintOnNodeTrustingObject(node, getOk) ==
    LET r    == getNodeAndCheckTaints(node.name, getOk)
        call == Call("Get", node.name, r[2])
    IN  IF r[2] # NoErr \/ Len(node.taints) < 1
        THEN Return(Logged(CalledWith(node), call), r[2])
        ELSE [CalledWith(node) EXCEPT !.pc = "listRemovers", !.nodes = <<node>>,
                                      !.calls = <<call>>]

\* Lines 415-425: of the object only the name is used, for the Get.
applyRemoveTaintOnNode(node, getOk) == applyGet(CalledWith(node), node.name, getOk)

ApplyOnObject ==
    /\ incr.pc \in {"idle", "done"}
    /\ \E node \in EventObjects, getOk \in BOOLEAN :
         incr' = applyRemoveTaintOnNode(node, getOk)
    /\ UNCHANGED <<nodes, removers, full, ext, unit>>

NextObject ==
    \/ ApplyOnObject
    \/ ApplyListRemovers
    \/ ApplyPatch
    \/ ExtSetTaints
    \/ ExtDeleteNode
    \/ ExtCreateNode

SpecObject == Init /\ [][NextObject]_vars

----------------------------------------------------------------------------
(* The controller at work: the manager calls Reconcile when a TaintRemover  *)
(* object appears and again after every Reconcile that returned an error,   *)
(* and may call it again at any time; it calls the node handler for every   *)
(* change of a node, the controller's own patches included.  The            *)
(* TaintRemover objects stay as they are; other actors change the taints of *)
(* the node and calls fail, MaxDisturb times together.  In the events field *)
(* of incr are the nodes with a change not yet handed to the handler.       *)

LiveNodes == {"n1"}

\* A call may fail while the other actors and the failures have not stopped.
MayFail(ok) == ok \/ ext < MaxDisturb

Failed(ok) == IF ok THEN ext ELSE ext + 1

\* The change of node n is to be handed to the node handler.
Notified(p, n) == [p EXCEPT !.events = p.events \cup {n}]

\* Reconcile is called: for the first time, or again after an error.
LiveReconcile ==
    /\ full.pc = "idle" \/ (full.pc = "done" /\ full.err # NoErr)
    /\ \E ok \in BOOLEAN :
         /\ MayFail(ok)
         /\ ext' = Failed(ok)
         /\ LET call   == Call("ListRemovers", "", IF ok THEN NoErr ELSE ListErr)
                taints == getAllTaintsToRemove(removers)
            IN  full' = IF ~ok
                        THEN Return(Logged(Idle, call), ListErr)
                        ELSE IF Len(taints) < 1
                             THEN Return(Logged(Idle, call), NoErr)
                             ELSE [Idle EXCEPT !.pc = "listNodes", !.taints = taints,
                                               !.calls = <<call>>]
    /\ UNCHANGED <<nodes, removers, incr, unit>>

\* Reconcile is called again although the last call returned nil.
LiveResync ==
    /\ full.pc = "done" /\ full.err = NoErr
    /\ LET call   == Call("ListRemovers", "", NoErr)
           taints == getAllTaintsToRemove(removers)
       IN  full' = IF Len(taints) < 1
                   THEN Return(Logged(Idle, call), NoErr)
                   ELSE [Idle EXCEPT !.pc = "listNodes", !.taints = taints,
                                     !.calls = <<call>>]
    /\ UNCHANGED <<nodes, removers, incr, ext, unit>>

LiveListNodes ==
    /\ full.pc = "listNodes"
    /\ \E ok \in BOOLEAN :
         /\ MayFail(ok)
         /\ ext' = Failed(ok)
         /\ full' = reconcileNodes(full, ok, NodeListItems)
    /\ UNCHANGED <<nodes, removers, incr, unit>>

LivePatch ==
    /\ full.pc = "patch"
    /\ \E ok \in BOOLEAN :
         /\ ok => full.patches[full.i].node.name \in DOMAIN nodes
         /\ full.patches[full.i].node.name \in DOMAIN nodes => MayFail(ok)
         /\ ext' = IF full.patches[full.i].node.name \in DOMAIN nodes
                   THEN Failed(ok) ELSE ext
         /\ full' = patchLoopStep(full, ok)
         /\ nodes' = Patched(full, ok)
         /\ incr' = IF ok
                    THEN Notified(Disturbed(incr, Patched(full, ok)),
                                  full.patches[full.i].node.name)
                    ELSE incr
    /\ UNCHANGED <<removers, unit>>

\* The node handler is called with a changed node.
LiveNodeEvent ==
    /\ incr.pc \in {"idle", "done"}
    /\ \E name \in incr.events, getOk \in BOOLEAN :
         /\ MayFail(getOk)
         /\ ext' = Failed(getOk)
         /\ incr' = applyGet([Idle EXCEPT !.name = name,
                                          !.events = incr.events \ {name}],
                             name, getOk)
    /\ UNCHANGED <<nodes, removers, full, unit>>

LiveApplyListRemovers ==
    /\ incr.pc = "listRemovers"
    /\ \E ok \in BOOLEAN :
         /\ MayFail(ok)
         /\ ext' = Failed(ok)
         /\ LET call == Call("ListRemovers", "", IF ok THEN NoErr ELSE ListErr)
            IN  incr' = IF ~ok
                        THEN Return(Logged(incr, call), ListErr)
                        ELSE patchNodesToRemoveTaints(Logged(incr, call), incr.nodes,
                                                      getAllTaintsToRemove(removers))
    /\ UNCHANGED <<nodes, removers, full, unit>>

LiveApplyPatch ==
    /\ incr.pc = "patch"
    /\ \E ok \in BOOLEAN :
         /\ ok => incr.patches[incr.i].node.name \in DOMAIN nodes
         /\ incr.patches[incr.i].node.name \in DOMAIN nodes => MayFail(ok)
         /\ ext' = IF incr.patches[incr.i].node.name \in DOMAIN nodes
                   THEN Failed(ok) ELSE ext
         /\ incr' = IF ok
                    THEN Notified(patchLoopStep(incr, ok), incr.patches[incr.i].node.name)
                    ELSE patchLoopStep(incr, ok)
         /\ nodes' = Patched(incr, ok)
         /\ full' = Disturbed(full, Patched(incr, ok))
    /\ UNCHANGED <<removers, unit>>

\* Someone sets the taints of the node; the handler will be told.
LiveExtSetTaints ==
    /\ ext < MaxDisturb
    /\ \E n \in DOMAIN nodes, ts \in ClusterTaintLists :
         /\ ts # nodes[n]
         /\ nodes' = [nodes EXCEPT ![n] = ts]
         /\ full' = Disturbed(full, [nodes EXCEPT ![n] = ts])
         /\ incr' = Notified(Disturbed(incr, [nodes EXCEPT ![n] = ts]), n)
    /\ ext' = ext + 1
    /\ UNCHANGED <<removers, unit>>

InitLive ==
    /\ nodes \in [LiveNodes -> ClusterTaintLists]
    /\ removers \in ClusterRemoverLists
    /\ full = Idle
    /\ incr = Idle
    /\ ext = 0
    /\ unit = NoUnit

NextLive ==
    \/ LiveReconcile
    \/ LiveResync
    \/ LiveListNodes
    \/ LivePatch
    \/ LiveNodeEvent
    \/ LiveApplyListRemovers
    \/ LiveApplyPatch
    \/ LiveExtSetTaints

\* A call that has begun goes on, Reconcile is called again after an error,
\* and the handler is told of every change.
FairLive ==
    /\ WF_vars(LiveReconcile)
    /\ WF_vars(LiveListNodes)
    /\ WF_vars(LivePatch)
    /\ WF_vars(LiveNodeEvent)
    /\ WF_vars(LiveApplyListRemovers)
    /\ WF_vars(LiveApplyPatch)

SpecLive == InitLive /\ [][NextLive]_vars /\ FairLive

----------------------------------------------------------------------------
(* Properties: what they speak of *)

\* The (key, effect) of t is the (key, effect) of a spec of the RemovalSet R.
InRemovalSet(t, R) == \E i \in 1..Len(R) : Pair(R[i]) = Pair(t)

\* The taints of T whose (key, effect) is not in R, in the order of T.
Kept(T, R) == SelectSeq(T, LAMBDA t : ~InRemovalSet(t, R))

\* The Patch calls of a pass, in the order they were made.
PatchCalls(p) == SelectSeq(p.calls, LAMBDA c : c.op = "Patch")

\* The pass listed the TaintRemover objects and the List succeeded.
ListedRemovers(p) ==
    \E i \in 1..Len(p.calls) : p.calls[i] = Call("ListRemovers", "", NoErr)

\* Every call the pass made succeeded.
AllCallsOk(p) == \A i \in 1..Len(p.calls) : p.calls[i].err = NoErr

\* All the taints the TaintRemover objects declare, in the order walked.
RECURSIVE Declared(_)
Declared(items) ==
    IF Len(items) = 0 THEN << >> ELSE items[1] \o Declared(Tail(items))

\* The first occurrence of each (key, effect) of the list, in order.
FirstOfEachPair(flat) ==
    LET first == SelectSeq([i \in 1..Len(flat) |-> i],
                           LAMBDA i : \A j \in 1..(i - 1) : Pair(flat[j]) # Pair(flat[i]))
    IN  [k \in 1..Len(first) |-> flat[first[k]]]

\* A call of makeNewTaintsForNode on a node has returned.
DiffReturned ==
    unit.fn = "makeNewTaintsForNode" /\ Len(unit.out) >= 1 /\ unit.target # NilNode

\* A call of getAllTaintsToRemove has returned.
CollectReturned == unit.fn = "getAllTaintsToRemove" /\ Len(unit.out) = 1

----------------------------------------------------------------------------
(* C1 *)

\* C1: when patchNodesToRemoveTaints has returned, a Patch was attempted for
\* every node that needed one, once and in order, whichever of them failed;
\* the nodes whose Patch succeeded hold their new taints, the others their
\* old ones; the count is the number of successful Patch calls and the error
\* is non-nil exactly when some Patch failed.
PartialFailureIsolation ==
    full.pc = "done" =>
        LET calls == PatchCalls(full)
        IN  /\ Len(calls) = Len(full.patches)
            /\ \A i \in 1..Len(calls) :
                 LET e == full.patches[i]
                 IN  /\ calls[i].node = e.node.name
                     /\ nodes[e.node.name] =
                            IF calls[i].err = NoErr THEN e.patch ELSE e.node.taints
            /\ full.removed = Cardinality({i \in 1..Len(calls) : calls[i].err = NoErr})
            /\ (full.err # NoErr) <=> (\E i \in 1..Len(calls) : calls[i].err # NoErr)

\* Three nodes needed a patch, only the Patch of the second failed: the first
\* and the third are patched, the count is 2 and the error is not nil.
PartialFailureIsolationWitness ==
    /\ full.pc = "done"
    /\ Len(full.patches) = 3
    /\ [i \in 1..3 |-> full.calls[i].err] = <<NoErr, PatchErr("n2"), NoErr>>
    /\ nodes["n1"] = full.patches[1].patch /\ nodes["n1"] # full.patches[1].node.taints
    /\ nodes["n3"] = full.patches[3].patch /\ nodes["n3"] # full.patches[3].node.taints
    /\ nodes["n2"] = full.patches[2].node.taints
    /\ full.removed = 2
    /\ full.err # NoErr

----------------------------------------------------------------------------
(* C2 *)

----------------------------------------------------------------------------
(* C3 *)

\* C3: after a pass in which every call succeeded and nobody else changed the
\* nodes, each node the pass processed holds its taints as read by the pass
\* without those whose (key, effect) is in the RemovalSet, the others in
\* their order; the count is the number of nodes that lost a taint.
OnlyDeclaredRemovedIn(p) ==
    (p.pc = "done" /\ p.clean /\ AllCallsOk(p) /\ Len(p.nodes) > 0) =>
        /\ \A i \in 1..Len(p.nodes) :
             /\ p.nodes[i].name \in DOMAIN nodes
             /\ nodes[p.nodes[i].name] = Kept(p.nodes[i].taints, p.taints)
        /\ p.removed = Cardinality({i \in 1..Len(p.nodes) :
                           Kept(p.nodes[i].taints, p.taints) # p.nodes[i].taints})

OnlyDeclaredRemoved == OnlyDeclaredRemovedIn(full) /\ OnlyDeclaredRemovedIn(incr)

\* foo/NoSchedule is declared, a node had [foo=bar/NoSchedule,
\* not-ready/NoSchedule]: it holds [not-ready/NoSchedule], the count is 1.
OnlyDeclaredRemovedWitness ==
    /\ full.pc = "done" /\ full.clean /\ AllCallsOk(full)
    /\ full.taints = <<Taint("foo", "", "NoSchedule")>>
    /\ \E i \in 1..Len(full.nodes) :
         /\ full.nodes[i].taints =
                <<Taint("foo", "bar", "NoSchedule"), Taint("not-ready", "", "NoSchedule")>>
         /\ nodes[full.nodes[i].name] = <<Taint("not-ready", "", "NoSchedule")>>
    /\ full.removed = 1

----------------------------------------------------------------------------
(* C4 *)

----------------------------------------------------------------------------
(* C5 *)

\* C5: getAllTaintsToRemove returns the first occurrence of each
\* (key, effect) among the declared taints, in the order walked: N - D
\* entries for N declared taints of which D repeat an earlier (key, effect).
DedupKeepsFirstOfEachPair ==
    CollectReturned =>
        LET flat == Declared(unit.items)
        IN  /\ unit.out[1] = FirstOfEachPair(flat)
            /\ Len(unit.out[1]) =
                 Len(flat) - Cardinality({i \in 1..Len(flat) :
                                 \E j \in 1..(i - 1) : Pair(flat[j]) = Pair(flat[i])})

----------------------------------------------------------------------------
(* C6 *)

\* C6: the value is never compared.  A node taint whose (key, effect) is
\* declared makes the diff report a change, whatever its value and the
\* value declared; of a list without repeated (key, effect) no taint with a
\* declared (key, effect) is left; and getAllTaintsToRemove never returns two
\* taints that differ in their value only.
ValueInsensitive ==
    /\ DiffReturned =>
         LET T   == unit.target.taints
             new == unit.out[1][1]
         IN  /\ (\E i \in 1..Len(T) : InRemovalSet(T[i], unit.taints)) =>
                    (unit.out[1][2] /\ Len(new) < Len(T))
             /\ UniquePairs(T) =>
                    \A i \in 1..Len(new) : ~InRemovalSet(new[i], unit.taints)
    /\ CollectReturned => UniquePairs(unit.out[1])

\* The only taint of the node has value "bar", its (key, effect) is declared
\* with value "": it is removed.
ValueInsensitiveWitness ==
    /\ DiffReturned
    /\ unit.target.taints = <<Taint("foo", "bar", "NoSchedule")>>
    /\ unit.taints = <<Taint("foo", "", "NoSchedule")>>
    /\ unit.out[1] = <<<< >>, TRUE>>

----------------------------------------------------------------------------
(* C7 *)

\* The pass p made a Patch call in this step; q is p after the step.
PatchedBy(p, q) ==
    /\ Len(q.calls) = Len(p.calls) + 1
    /\ q.calls[Len(q.calls)].op = "Patch"

\* C7: a pass that found no taint to remove (no TaintRemover object, or none
\* declaring a taint) returns nil having made no Patch call, and no node
\* changes but by the hand of another actor or by the Patch of a pass whose
\* RemovalSet is not empty.
EmptyRemovalSetDone(p) ==
    (p.pc = "done" /\ ListedRemovers(p) /\ p.taints = << >>) =>
        /\ p.err = NoErr
        /\ PatchCalls(p) = << >>
        /\ p.removed = 0

EmptyRemovalSetFrame ==
    nodes' # nodes =>
        \/ ext' # ext
        \/ PatchedBy(full, full') /\ full.taints # << >>
        \/ PatchedBy(incr, incr') /\ incr.taints # << >>

EmptyRemovalSetIsNoOp ==
    /\ [](EmptyRemovalSetDone(full) /\ EmptyRemovalSetDone(incr))
    /\ [][EmptyRemovalSetFrame]_vars

\* A node event for a node with taints while no TaintRemover declares
\* anything: the pass ends with nil after the Get and the List.
EmptyRemovalSetWitness ==
    /\ incr.pc = "done" /\ incr.clean
    /\ getAllTaintsToRemove(removers) = << >>
    /\ incr.calls = <<Call("Get", incr.name, NoErr), Call("ListRemovers", "", NoErr)>>
    /\ Len(incr.nodes) = 1 /\ Len(incr.nodes[1].taints) > 0
    /\ nodes[incr.name] = incr.nodes[1].taints
    /\ incr.err = NoErr

----------------------------------------------------------------------------
(* C8 *)

\* C8: when Reconcile, with taints to remove, lists the nodes and none of
\* them has a taint, it returns nil at once, with no Patch call.
NoTaintedNodeStep ==
    (/\ full.pc = "listNodes"
     /\ full'.pc # "listNodes"
     /\ full'.calls = Append(full.calls, Call("ListNodes", "", NoErr))
     /\ Len(full.taints) > 0
     /\ \A n \in DOMAIN nodes : nodes[n] = << >>)
    => /\ full'.pc = "done"
       /\ full'.err = NoErr
       /\ PatchCalls(full') = << >>
       /\ full'.removed = 0
       /\ nodes' = nodes

NoTaintedNodeIsNoOp == [][NoTaintedNodeStep]_vars

\* A full pass over two nodes without taints while a taint is declared.
NoTaintedNodeWitness ==
    /\ full.pc = "done" /\ full.clean
    /\ full.taints = <<Taint("foo", "", "NoSchedule")>>
    /\ full.calls = <<Call("ListRemovers", "", NoErr), Call("ListNodes", "", NoErr)>>
    /\ DOMAIN nodes = ClusterNodes
    /\ \A n \in DOMAIN nodes : nodes[n] = << >>
    /\ full.err = NoErr

----------------------------------------------------------------------------
(* C9 *)

\* A node event starts a pass in this step.
NodeEventStep ==
    /\ incr.pc \in {"idle", "done"}
    /\ incr' # incr
    /\ nodes' = nodes

\* C9: the pass started by an event for a stored node without taints ends
\* with the Get: it returns nil, and lists and patches nothing.
UntaintedNodeStep ==
    (/\ NodeEventStep
     /\ incr'.calls[1] = Call("Get", incr'.name, NoErr)
     /\ incr'.name \in DOMAIN nodes
     /\ nodes[incr'.name] = << >>)
    => /\ incr'.pc = "done"
       /\ incr'.err = NoErr
       /\ incr'.calls = <<Call("Get", incr'.name, NoErr)>>

UntaintedNodeIsNoOp == [][UntaintedNodeStep]_vars

\* An event for a node without taints while a taint is declared.
UntaintedNodeWitness ==
    /\ incr.pc = "done" /\ incr.clean
    /\ incr.name \in DOMAIN nodes
    /\ nodes[incr.name] = << >>
    /\ Len(getAllTaintsToRemove(removers)) > 0
    /\ incr.calls = <<Call("Get", incr.name, NoErr)>>
    /\ incr.err = NoErr

----------------------------------------------------------------------------
(* C10 *)

\* The Get of the pass returned NotFound.
GetNotFound(p) ==
    p.pc = "done" /\ Len(p.calls) >= 1 /\ p.calls[1] = Call("Get", p.name, NotFound)

\* C10 as stated: when the Get returns NotFound, applyRemoveTaintOnNode
\* returns nil.
NotFoundReturnsNil == GetNotFound(incr) => incr.err = NoErr

\* C10: when the Get returns NotFound, applyRemoveTaintOnNode returns that
\* error, and has neither listed the TaintRemover objects nor patched.
NotFoundIsReturned ==
    GetNotFound(incr) =>
        /\ incr.err = NotFound
        /\ Len(incr.calls) = 1

\* An event for a node that is not stored.
NotFoundIsReturnedWitness ==
    /\ GetNotFound(incr)
    /\ incr.clean
    /\ incr.name \notin DOMAIN nodes
    /\ incr.err = NotFound

----------------------------------------------------------------------------
(* C11 *)

\* C11: when the Get of the node failed, with NotFound or another error, no
\* node came back, and applyRemoveTaintOnNode has returned that error having
\* made no other call: no List of the TaintRemover objects, no Patch.
FailedLookupIsReported ==
    (Len(incr.calls) >= 1 /\ incr.calls[1].err # NoErr) =>
        /\ incr.calls[1].op = "Get"
        /\ incr.pc = "done"
        /\ incr.nodes = << >>
        /\ incr.err = incr.calls[1].err
        /\ incr.err \in {NotFound, GetErr}
        /\ Len(incr.calls) = 1

\* The Get of a stored node with a declared taint failed for another reason
\* than the node being gone.
FailedLookupIsReportedWitness ==
    /\ incr.pc = "done" /\ incr.clean
    /\ incr.name \in DOMAIN nodes
    /\ \E i \in 1..Len(nodes[incr.name]) :
         InRemovalSet(nodes[incr.name][i], getAllTaintsToRemove(removers))
    /\ incr.calls = <<Call("Get", incr.name, GetErr)>>
    /\ incr.err = GetErr

----------------------------------------------------------------------------
(* C12 *)

\* The i-th call of the pass is a List that failed.
FailedList(p, i) ==
    p.calls[i].op \in {"ListRemovers", "ListNodes"} /\ p.calls[i].err # NoErr

\* C12: a failed List is the last call of a Reconcile pass, which returns
\* its error: after a failed List of the TaintRemover objects there is no
\* List of the nodes and no Patch, after a failed List of the nodes no
\* Patch; and the step in which the List fails changes no node.
ListFailureDone ==
    \A i \in 1..Len(full.calls) :
        FailedList(full, i) =>
            /\ full.pc = "done"
            /\ full.err = full.calls[i].err
            /\ i = Len(full.calls)
            /\ full.calls[i].op = "ListRemovers" => i = 1
            /\ PatchCalls(full) = << >>
            /\ full.removed = 0

ListFailureFrame ==
    (/\ Len(full'.calls) >= 1
     /\ full'.calls # full.calls
     /\ FailedList(full', Len(full'.calls)))
    => nodes' = nodes

ListFailureIsFatal == []ListFailureDone /\ [][ListFailureFrame]_vars

\* The List of the nodes failed while a node carried a declared taint.
ListFailureIsFatalWitness ==
    /\ full.pc = "done" /\ full.clean
    /\ full.calls = <<Call("ListRemovers", "", NoErr), Call("ListNodes", "", ListErr)>>
    /\ full.err = ListErr
    /\ \E n \in DOMAIN nodes : \E i \in 1..Len(nodes[n]) :
         InRemovalSet(nodes[n][i], full.taints)

----------------------------------------------------------------------------
(* C13 *)

\* C13: once a Patch of a full pass has failed with the cancellation error,
\* the pass is over: that Patch is its last call and the cancellation error
\* is what it returns.
CancellationStopsBatch ==
    \A i \in 1..Len(full.calls) :
        full.calls[i] = Call("Patch", full.calls[i].node, Canceled) =>
            /\ i = Len(full.calls)
            /\ full.pc = "done"
            /\ full.err = Canceled

----------------------------------------------------------------------------
(* C14 *)

\* C14: the Patch calls of one pass name different nodes (none is patched
\* twice, a failed Patch is not tried again), and each names a node the pass
\* read with at least one taint whose (key, effect) is in the RemovalSet.
PatchOncePerNodeIn(p) ==
    LET calls == PatchCalls(p)
    IN  /\ \A i, j \in 1..Len(calls) : calls[i].node = calls[j].node => i = j
        /\ \A i \in 1..Len(calls) :
             \E k \in 1..Len(p.nodes) :
                /\ p.nodes[k].name = calls[i].node
                /\ \E t \in 1..Len(p.nodes[k].taints) :
                      InRemovalSet(p.nodes[k].taints[t], p.taints)

PatchOncePerNode == PatchOncePerNodeIn(full) /\ PatchOncePerNodeIn(incr)

\* A full pass over two tainted nodes: the one with a declared taint got one
\* Patch, which failed, the other none.
PatchOncePerNodeWitness ==
    /\ full.pc = "done"
    /\ Len(full.nodes) = 2
    /\ Len(PatchCalls(full)) = 1
    /\ PatchCalls(full)[1].err # NoErr
    /\ \E k \in 1..2 :
         /\ full.nodes[k].name # PatchCalls(full)[1].node
         /\ \A t \in 1..Len(full.nodes[k].taints) :
               ~InRemovalSet(full.nodes[k].taints[t], full.taints)

----------------------------------------------------------------------------
(* C15 *)

\* The List calls of the TaintRemover objects of a pass.
ListsOfRemovers(p) == SelectSeq(p.calls, LAMBDA c : c.op = "ListRemovers")

\* C15: a pass lists the TaintRemover objects at most once; the patches of
\* the pass are those of the nodes it read against the RemovalSet it
\* collected, one for each node that has a taint of that set; and while the
\* pass runs its RemovalSet and its patches stay as they are, whatever
\* happens to the TaintRemover objects.
RemovalSetFixedIn(p) ==
    /\ Len(ListsOfRemovers(p)) <= 1
    /\ (ListedRemovers(p) /\ Len(p.nodes) > 0) =>
         LET need == SelectSeq(p.nodes, LAMBDA n : Kept(n.taints, p.taints) # n.taints)
         IN  p.patches = [i \in 1..Len(need) |->
                             [node |-> need[i], patch |-> Kept(need[i].taints, p.taints)]]

RemovalSetFixedStep(p, q) ==
    /\ p.pc \in {"listNodes", "patch"} => q.taints = p.taints
    /\ p.pc = "patch" => (q.patches = p.patches /\ q.nodes = p.nodes)

RemovalSetFixed ==
    /\ [](RemovalSetFixedIn(full) /\ RemovalSetFixedIn(incr))
    /\ [][RemovalSetFixedStep(full, full') /\ RemovalSetFixedStep(incr, incr')]_vars

\* A full pass is in its loop with patches for a declared taint while no
\* TaintRemover object declares a taint any more.
RemovalSetFixedWitness ==
    /\ full.pc = "patch"
    /\ full.taints = <<Taint("foo", "", "NoSchedule")>>
    /\ getAllTaintsToRemove(removers) = << >>
    /\ Len(full.patches) = 2 /\ full.i = 2
    /\ full.calls[3] = Call("Patch", full.patches[1].node.name, NoErr)

----------------------------------------------------------------------------
(* C16 *)

\* C16: Reconcile returns a non-nil error whenever a List or a Patch of its
\* pass failed, applyRemoveTaintOnNode whenever its List of the TaintRemover
\* objects or its Patch failed.
ErrorsNeverDropped ==
    /\ (full.pc = "done" /\ \E i \in 1..Len(full.calls) : full.calls[i].err # NoErr)
           => full.err # NoErr
    /\ (incr.pc = "done" /\ \E i \in 1..Len(incr.calls) :
                                /\ incr.calls[i].op \in {"ListRemovers", "Patch"}
                                /\ incr.calls[i].err # NoErr)
           => incr.err # NoErr

\* A full pass whose first Patch failed and whose second Patch succeeded
\* returned the error of the first.
ErrorsNeverDroppedWitness ==
    /\ full.pc = "done"
    /\ Len(PatchCalls(full)) = 2
    /\ PatchCalls(full)[1].err # NoErr
    /\ PatchCalls(full)[2].err = NoErr
    /\ full.err = PatchCalls(full)[1].err

----------------------------------------------------------------------------
(* C17 *)

\* No node carries a taint whose (key, effect) the TaintRemover objects declare.
Clean ==
    \A n \in DOMAIN nodes : \A i \in 1..Len(nodes[n]) :
        ~InRemovalSet(nodes[n][i], getAllTaintsToRemove(removers))

\* The nodes are clean and no pass is about to call Patch.
Converged == Clean /\ full.pc # "patch" /\ incr.pc # "patch"

\* C17: with Reconcile called again after every error and the handler told
\* of every node change, once the other actors and the failures have
\* stopped, from some time on no node carries a declared taint and no pass
\* patches.
ConvergesOnRequeue == <>[]Converged

----------------------------------------------------------------------------
(* C18 *)

\* The nodes the calls cs asked a Patch for, and those whose Patch failed.
PatchedNodes(cs) == {cs[i].node : i \in {j \in 1..Len(cs) : cs[j].op = "Patch"}}
FailedNodes(cs)  ==
    {cs[i].node : i \in {j \in 1..Len(cs) : cs[j].op = "Patch" /\ cs[j].err # NoErr}}

\* Both List calls of the pass that made the calls cs succeeded.
ListsOk(cs) == \A i \in 1..Len(cs) : cs[i].op # "Patch" => cs[i].err = NoErr

\* C18: a full pass run right after a full pass whose List calls succeeded,
\* with no change by another actor in between, asks a Patch only for nodes
\* whose Patch failed in the first pass, once each, and, if it gets to the
\* end of its loop, for every one of them; after a first pass without a
\* failed Patch it asks none.
RequeuedPassIsSafe ==
    (full.prev # << >> /\ ListsOk(full.prev)) =>
        /\ PatchedNodes(full.calls) \subseteq FailedNodes(full.prev)
        /\ Len(PatchCalls(full)) = Cardinality(PatchedNodes(full.calls))
        /\ (full.pc = "done" /\ ListsOk(full.calls))
              => PatchedNodes(full.calls) = FailedNodes(full.prev)

\* The first pass patched one node and failed to patch another; the second
\* pass asked one Patch, for the node the first one failed on.
RequeuedPassIsSafeWitness ==
    /\ full.pc = "done"
    /\ \E i, j \in 1..Len(full.prev) :
          /\ full.prev[i].op = "Patch" /\ full.prev[i].err # NoErr
          /\ full.prev[j].op = "Patch" /\ full.prev[j].err = NoErr
    /\ Len(PatchCalls(full)) = 1
    /\ PatchedNodes(full.calls) = FailedNodes(full.prev)

----------------------------------------------------------------------------
(* C19 *)

\* The step from p to q is a Patch of the pass that succeeded.
PatchApplied(p, q) == PatchedBy(p, q) /\ q.calls[Len(q.calls)].err = NoErr

\* t is one of the taints ts.
Among(t, ts) == \E j \in 1..Len(ts) : ts[j] = t

\* After a successful Patch the node has the taints the diff makes of the
\* copy the pass read, and none of the taints it had got since.
OverwriteStep(p, q) ==
    PatchApplied(p, q) =>
        LET e == p.patches[p.i]
            n == e.node.name
        IN  /\ n \in DOMAIN nodes'
            /\ nodes'[n] = makeNewTaintsForNode(e.node, p.taints)[1]
            /\ \A k \in 1..Len(nodes[n]) :
                  ~Among(nodes[n][k], e.node.taints) => ~Among(nodes[n][k], nodes'[n])

\* C19: a successful Patch sets the taints of the node to the list computed
\* from the copy read earlier in the pass, whatever other actors wrote since;
\* a taint another actor added after the read is gone after the Patch.
WholeFieldOverwrite ==
    [][OverwriteStep(full, full') /\ OverwriteStep(incr, incr')]_vars

\* The pass for n1 read [foo=bar], another actor then set the taints of n1 to
\* [foo=bar, not-ready], and after the Patch of the pass n1 has no taint.
WholeFieldOverwriteWitness ==
    /\ full.pc = "idle"
    /\ incr.pc = "done"
    /\ PatchCalls(incr) = <<Call("Patch", "n1", NoErr)>>
    /\ incr.patches[1].node.taints = <<Taint("foo", "bar", "NoSchedule")>>
    /\ incr.written = {<<"n1", <<Taint("foo", "bar", "NoSchedule"),
                                 Taint("not-ready", "", "NoSchedule")>>>>}
    /\ "n1" \in DOMAIN nodes
    /\ nodes["n1"] = << >>

----------------------------------------------------------------------------
(* C20 *)

\* Every taint the node has after a successful Patch it had before it.
NoTaintAddedStep(p, q) ==
    PatchApplied(p, q) =>
        LET n == p.patches[p.i].node.name
        IN  \A k \in 1..Len(nodes'[n]) : Among(nodes'[n][k], nodes[n])

\* C20: whatever the other actors do between the steps of the passes, a Patch
\* of a pass puts no taint on a node that the node did not have just before.
CoreNeverAddsTaint ==
    [][NoTaintAddedStep(full, full') /\ NoTaintAddedStep(incr, incr')]_vars

----------------------------------------------------------------------------
(* C21 *)

\* The place of the node n in the listing.
ListingPlace(n) == CHOOSE i \in 1..Len(NodeOrder) : NodeOrder[i] = n

\* The step is the List of the nodes of the full pass.
NodeListStep ==
    /\ full.pc = "listNodes"
    /\ Len(full'.calls) = Len(full.calls) + 1
    /\ full'.calls[Len(full'.calls)].op = "ListNodes"

\* What the List of the nodes leaves in the pass: the stored nodes that have
\* taints, each once, as stored, in the order of the listing; nothing when
\* the List failed.
SelectedAtList ==
    NodeListStep =>
        IF full'.calls[Len(full'.calls)].err # NoErr
        THEN /\ full'.nodes = << >>
             /\ full'.pc = "done"
             /\ full'.err = full'.calls[Len(full'.calls)].err
        ELSE /\ \A i \in 1..Len(full'.nodes) :
                   /\ full'.nodes[i].name \in DOMAIN nodes
                   /\ full'.nodes[i].taints = nodes[full'.nodes[i].name]
                   /\ Len(full'.nodes[i].taints) > 0
             /\ \A n \in DOMAIN nodes :
                   Len(nodes[n]) > 0 =>
                       \E i \in 1..Len(full'.nodes) : full'.nodes[i].name = n
             /\ \A i, j \in 1..Len(full'.nodes) :
                   i < j => ListingPlace(full'.nodes[i].name)
                              < ListingPlace(full'.nodes[j].name)

\* The selected nodes are copies: while the pass patches, what others write
\* to the stored nodes does not reach them.
SelectionIsCopy ==
    (full.pc = "patch" /\ full'.pc \in {"patch", "done"}) => full'.nodes = full.nodes

\* C21: the List of the nodes of a full pass yields exactly the listed nodes
\* that have taints, declared or not, in listing order and as copies; when
\* the List fails it yields no node and the pass returns the error.
FullScanSelection == [][SelectedAtList /\ SelectionIsCopy]_vars

\* A pass selected n1 and n2 in this order, n2 with the one taint not-ready
\* that no TaintRemover declares, and another actor has since written to a
\* node without the selection changing.
FullScanSelectionWitness ==
    /\ full.pc = "patch"
    /\ Len(full.nodes) = 2
    /\ full.nodes[1].name = "n1"
    /\ full.nodes[2] = Node("n2", <<Taint("not-ready", "", "NoSchedule")>>)
    /\ full.written # {}
    /\ \E w \in full.written : w[1] = "n2" /\ w[2] # full.nodes[2].taints

----------------------------------------------------------------------------
(* C22 *)

\* The step is a call of the node handler with an event of one of the kinds.
HandlerStep(kinds) ==
    /\ incr.pc \in {"idle", "done"}
    /\ incr'.evt # incr.evt
    /\ incr'.evt.kind \in kinds

\* C22: a call of the node handler with a Delete or a Generic event makes no
\* Get, List or Patch call, puts nothing on the work queue and leaves the
\* nodes and the TaintRemover objects as they are.
DeleteAndGenericAreNoOps ==
    [][HandlerStep({"Delete", "Generic"}) =>
          /\ incr'.calls = incr.calls
          /\ incr'.pc = incr.pc
          /\ incr'.queued = incr.queued
          /\ nodes' = nodes
          /\ removers' = removers
          /\ full' = full]_vars

\* The handler got a Delete event for a stored node that carries a declared
\* taint, and no pass has begun.
DeleteAndGenericAreNoOpsWitness ==
    /\ incr.evt.kind = "Delete"
    /\ incr.pc = "idle"
    /\ incr.calls = << >>
    /\ incr.evt.object \in DOMAIN nodes
    /\ \E i \in 1..Len(nodes[incr.evt.object]) :
          InRemovalSet(nodes[incr.evt.object][i], getAllTaintsToRemove(removers))

----------------------------------------------------------------------------
(* C23 *)

\* The Patch calls of the pass p that succeeded, and those that failed.
PatchesOk(p)     == SelectSeq(p.calls, LAMBDA c : c.op = "Patch" /\ c.err = NoErr)
PatchesFailed(p) == SelectSeq(p.calls, LAMBDA c : c.op = "Patch" /\ c.err # NoErr)

\* The nodes given to the pass p for which the diff says needPatch.
NeedPatch(p) ==
    {i \in 1..Len(p.nodes) : makeNewTaintsForNode(p.nodes[i], p.taints)[2]}

\* C23: the count patchNodesToRemoveTaints returns is the number of nodes
\* whose Patch succeeded; with the number of failed Patch calls it makes the
\* number of given nodes that needed a patch, and it is never more than the
\* number of nodes given.
SuccessCount ==
    full.pc = "done" =>
        /\ full.removed = Len(PatchesOk(full))
        /\ full.removed + Len(PatchesFailed(full)) = Cardinality(NeedPatch(full))
        /\ full.removed <= Len(full.nodes)

\* Of three nodes given, one lost two taints by its Patch, the Patch of
\* another failed and the third needed none: the count is 1.
SuccessCountWitness ==
    /\ full.pc = "done"
    /\ Len(full.nodes) = 3
    /\ Len(full.patches) = 2
    /\ full.removed = 1
    /\ Len(PatchesFailed(full)) = 1
    /\ \E i \in 1..2 :
          /\ Len(full.patches[i].node.taints) = 2
          /\ full.patches[i].patch = << >>
          /\ full.calls[i] = Call("Patch", full.patches[i].node.name, NoErr)

----------------------------------------------------------------------------
(* C24 *)

\* C24: patchNodesToRemoveTaints returns nil exactly when none of its Patch
\* calls failed, and otherwise the error of the last Patch that failed, in
\* the order of processing, whether later nodes were patched or not.
BatchReportsLastError ==
    full.pc = "done" =>
        full.err = IF Len(PatchesFailed(full)) = 0
                   THEN NoErr
                   ELSE PatchesFailed(full)[Len(PatchesFailed(full))].err

\* The Patch of n1 failed, the Patch of n2 failed, the Patch of n3 succeeded:
\* the error returned is that of n2.
BatchReportsLastErrorWitness ==
    /\ full.pc = "done"
    /\ Len(full.calls) = 3
    /\ full.calls[1] = Call("Patch", "n1", PatchErr("n1"))
    /\ full.calls[2] = Call("Patch", "n2", PatchErr("n2"))
    /\ full.calls[3] = Call("Patch", "n3", NoErr)
    /\ full.err = PatchErr("n2")

----------------------------------------------------------------------------
(* C25 *)

\* The calls of a full pass in their order: the List of the TaintRemover
\* objects, then, if it succeeded and a taint is declared, the List of the
\* nodes, then, if that succeeded and a node has taints, the Patch calls.
FullPassOrdered ==
    \A i \in 1..Len(full.calls) :
        /\ full.calls[i].op \in {"ListRemovers", "ListNodes", "Patch"}
        /\ full.calls[i].op = "ListRemovers" <=> i = 1
        /\ full.calls[i].op = "ListNodes" =>
              /\ i = 2
              /\ full.calls[1].err = NoErr
              /\ Len(full.taints) > 0
        /\ full.calls[i].op = "Patch" =>
              /\ i > 2
              /\ full.calls[2] = Call("ListNodes", "", NoErr)
              /\ Len(full.nodes) > 0

\* A pass that returned makes no further call: the next call is the first of
\* a new pass.
FullPassEnds ==
    (full.pc = "done" /\ full'.calls # full.calls) =>
        /\ Len(full'.calls) = 1
        /\ full'.calls[1].op = "ListRemovers"

\* C25: a Reconcile pass lists the TaintRemover objects first, lists the nodes
\* after that and only with a taint to remove, patches after that and only
\* with a node that has taints, makes each List at most once, and ends.
FullPassOrder == []FullPassOrdered /\ [][FullPassEnds]_vars

\* A pass made its two List calls and two Patch calls and returned.
FullPassOrderWitness ==
    /\ full.pc = "done"
    /\ Len(full.calls) = 4
    /\ full.calls[1] = Call("ListRemovers", "", NoErr)
    /\ full.calls[2] = Call("ListNodes", "", NoErr)
    /\ full.calls[3].op = "Patch"
    /\ full.calls[4].op = "Patch"

----------------------------------------------------------------------------
(* C26 *)

\* The calls of a single-node pass in their order: the Get of the node, then,
\* if the node is there and has a taint, the List of the TaintRemover
\* objects, then, if the diff of the node says needPatch, its Patch.
SingleNodePassOrdered ==
    /\ incr.pc # "idle" => Len(incr.calls) >= 1
    /\ Len(incr.calls) <= 3
    /\ \A i \in 1..Len(incr.calls) :
          /\ incr.calls[i].op \in {"Get", "ListRemovers", "Patch"}
          /\ incr.calls[i].op = "Get" <=> i = 1
          /\ incr.calls[i].op = "Get" => incr.calls[i].node = incr.name
          /\ incr.calls[i].op = "ListRemovers" =>
                /\ i = 2
                /\ incr.calls[1].err = NoErr
                /\ Len(incr.nodes) = 1
                /\ incr.nodes[1].name = incr.name
                /\ Len(incr.nodes[1].taints) > 0
          /\ incr.calls[i].op = "Patch" =>
                /\ i = 3
                /\ incr.calls[2] = Call("ListRemovers", "", NoErr)
                /\ incr.calls[i].node = incr.name
                /\ makeNewTaintsForNode(incr.nodes[1], incr.taints)[2]

\* With a Get and a List that succeeded and a diff that says nothing changed
\* the pass returns nil without a Patch.
SingleNodePassNoMatch ==
    (/\ incr.pc = "done"
     /\ Len(incr.calls) >= 2
     /\ incr.calls[2].err = NoErr
     /\ ~makeNewTaintsForNode(incr.nodes[1], incr.taints)[2])
    => /\ Len(incr.calls) = 2
       /\ incr.err = NoErr

\* C26: applyRemoveTaintOnNode makes one Get of its node first, then at most
\* one List of the TaintRemover objects, only for a stored node with a taint,
\* then at most one Patch, of that node and only when the diff says
\* needPatch; for a node whose taints none is declared it returns nil
\* without a Patch.
SingleNodePassOrder == SingleNodePassOrdered /\ SingleNodePassNoMatch

\* The pass for a node with the one taint not-ready, under a TaintRemover
\* that declares foo, returned nil after its Get and its List.
SingleNodePassOrderWitness ==
    /\ incr.pc = "done"
    /\ incr.calls = <<Call("Get", incr.name, NoErr), Call("ListRemovers", "", NoErr)>>
    /\ incr.nodes[1].taints = <<Taint("not-ready", "", "NoSchedule")>>
    /\ Len(incr.taints) > 0
    /\ incr.err = NoErr

----------------------------------------------------------------------------
(* C27 *)

\* The Patch calls of the pass so far name nodes in the order of the listing.
PatchesInListingOrder ==
    \A i, j \in 1..Len(PatchCalls(full)) :
        i < j => ListingPlace(PatchCalls(full)[i].node)
                   < ListingPlace(PatchCalls(full)[j].node)

\* A Patch is made when the Patch calls of all entries before it have
\* returned, and it is the Patch of the next entry.
PatchesOneAtATime ==
    PatchedBy(full, full') =>
        /\ Len(PatchCalls(full)) = full.i - 1
        /\ full'.calls[Len(full'.calls)].node = full.patches[full.i].node.name
        /\ Len(PatchCalls(full')) = Len(PatchCalls(full)) + 1

\* C27: the Patch calls of a full pass are made one at a time, in the order
\* in which their nodes are listed; none is made before the Patch calls of
\* the nodes before it have returned.
SequentialInListingOrder == []PatchesInListingOrder /\ [][PatchesOneAtATime]_vars

\* A pass patched n1, n2 and n3 in this order, the Patch of n2 failing.
SequentialInListingOrderWitness ==
    /\ full.pc = "done"
    /\ Len(PatchCalls(full)) = 3
    /\ PatchCalls(full)[1] = Call("Patch", "n1", NoErr)
    /\ PatchCalls(full)[2] = Call("Patch", "n2", PatchErr("n2"))
    /\ PatchCalls(full)[3] = Call("Patch", "n3", NoErr)

----------------------------------------------------------------------------
(* C28 *)

\* No taint of the list ts is matched by a taint to remove of the list r.
NoneMatches(ts, r) ==
    \A i \in 1..Len(ts), j \in 1..Len(r) : ~MatchTaint(ts[i], r[j])

\* C28: makeNewTaintsForNode returns (nil, false) for a nil node; with no
\* taint to remove, and with taints to remove of which none matches a taint
\* of the node, it returns the taints of the node as they are, in their
\* order, and false.  (The nil list and the empty list are the same value
\* here.)
DiffEdgeCases ==
    (unit.fn = "makeNewTaintsForNode" /\ Len(unit.out) >= 1) =>
        /\ unit.target = NilNode => unit.out[1] = <<<< >>, FALSE>>
        /\ (unit.target # NilNode /\ unit.taints = << >>)
              => unit.out[1] = <<unit.target.taints, FALSE>>
        /\ (unit.target # NilNode /\ NoneMatches(unit.target.taints, unit.taints))
              => unit.out[1] = <<unit.target.taints, FALSE>>

\* A node with two taints and a taint to remove that matches neither: the two
\* come back in their order, with false.
DiffEdgeCasesWitness ==
    /\ unit.fn = "makeNewTaintsForNode"
    /\ Len(unit.out) = 1
    /\ unit.target # NilNode
    /\ Len(unit.target.taints) = 2
    /\ unit.target.taints[1] # unit.target.taints[2]
    /\ Len(unit.taints) >= 1
    /\ NoneMatches(unit.target.taints, unit.taints)
    /\ unit.out[1] = <<unit.target.taints, FALSE>>

----------------------------------------------------------------------------
(* C29 *)

\* The places of T that stay when each taint to remove of R takes out the
\* first taint of its (key, effect) still there: place i stays when at least
\* as many taints of its (key, effect) stand before it as R has taints of
\* that (key, effect).
StayingPlaces(T, R) ==
    {i \in 1..Len(T) :
        Cardinality({j \in 1..(i - 1) : MatchTaint(T[j], T[i])})
            >= Cardinality({k \in 1..Len(R) : MatchTaint(T[i], R[k])})}

\* The taints of T at the places I, in their order.
AtPlaces(T, I) ==
    LET f[n \in 0..Len(T)] ==
            IF n = 0 THEN << >>
            ELSE IF n \in I THEN Append(f[n - 1], T[n]) ELSE f[n - 1]
    IN  f[Len(T)]

----------------------------------------------------------------------------
(* C30 *)

\* The step is a call of the node handler with a Create or an Update event.
RoutedStep ==
    /\ incr.pc \in {"idle", "done"}
    /\ incr' # incr
    /\ nodes' = nodes
    /\ incr'.evt.kind \in {"Create", "Update"}

\* A Create or Update event begins one pass, with the Get of the node the
\* event names (for an Update the new object).
RoutedToNamedNode ==
    RoutedStep =>
        /\ incr'.name = incr'.evt.object
        /\ Len(incr'.calls) = 1
        /\ incr'.calls[1].op = "Get"
        /\ incr'.calls[1].node = incr'.evt.object
        /\ incr'.queued = << >>
        /\ full' = full

\* The calls made for a node event: no List of the nodes, and no call on a
\* node other than the one the pass is for.
OnlyNamedNode ==
    \A i \in 1..Len(incr.calls) :
        /\ incr.calls[i].op # "ListNodes"
        /\ incr.calls[i].op \in {"Get", "Patch"} => incr.calls[i].node = incr.name

\* C30: a node Create event and a node Update event each begin one
\* single-node pass for the node the event names, for an Update the new
\* object; no node event lists the nodes or patches another node.
EventRouting == []OnlyNamedNode /\ [][RoutedToNamedNode]_vars

\* An Update event whose old and new object have different names was handled:
\* the node named by the new object was read and patched, and the other node
\* still carries a declared taint.
EventRoutingWitness ==
    /\ incr.evt.kind = "Update"
    /\ incr.evt.objectOld # incr.evt.object
    /\ incr.pc = "done"
    /\ incr.calls = <<Call("Get", incr.evt.object, NoErr),
                      Call("ListRemovers", "", NoErr),
                      Call("Patch", incr.evt.object, NoErr)>>
    /\ incr.evt.objectOld \in DOMAIN nodes
    /\ \E i \in 1..Len(nodes[incr.evt.objectOld]) :
          InRemovalSet(nodes[incr.evt.objectOld][i], incr.taints)

----------------------------------------------------------------------------
(* C31 *)

\* The step is a call of applyRemoveTaintOnNode whose Get succeeded.
GetStep ==
    /\ incr.pc \in {"idle", "done"}
    /\ incr' # incr
    /\ nodes' = nodes
    /\ incr'.calls[1] = Call("Get", incr'.name, NoErr)

\* After the Get the pass holds the node as it is stored, whatever taints the
\* object of the call carries; for a stored node without taints it returns
\* nil at once.
ReadsStoredNode ==
    GetStep =>
        IF Len(nodes[incr'.name]) = 0
        THEN incr'.pc = "done" /\ incr'.err = NoErr /\ Len(incr'.calls) = 1
        ELSE incr'.nodes = <<Node(incr'.name, nodes[incr'.name])>>

\* The payload of the pass is the diff of the node it read.
PayloadFromRead ==
    \A i \in 1..Len(incr.patches) :
        /\ incr.patches[i].node = incr.nodes[1]
        /\ incr.patches[i].patch = makeNewTaintsForNode(incr.nodes[1], incr.taints)[1]

\* C31: the single-node pass computes its diff and its Patch payload from the
\* taints its own Get returned, not from those of the object it was called
\* with; an object that carries declared taints for a node stored without
\* taints leads to no Patch.
FreshRead == []PayloadFromRead /\ [][ReadsStoredNode]_vars

\* A call with an object that carries the declared taint foo, for a node
\* stored without taints, returned nil after its Get.
FreshReadWitness ==
    /\ incr.pc = "done"
    /\ incr.evt.kind = "Create"
    /\ incr.evt.taints = <<Taint("foo", "bar", "NoSchedule")>>
    /\ InRemovalSet(incr.evt.taints[1], getAllTaintsToRemove(removers))
    /\ incr.evt.object \in DOMAIN nodes
    /\ nodes[incr.evt.object] = << >>
    /\ incr.calls = <<Call("Get", incr.evt.object, NoErr)>>
    /\ incr.err = NoErr
    /\ ext = 0

----------------------------------------------------------------------------
(* C32 *)

\* Nothing is on the work queue of the handler and no full pass has begun.
NothingQueued == incr.queued = << >> /\ full = Idle

\* A pass that has returned, with an error or without, makes no further
\* call: the next call made is the Get of the pass of a later event.
NoRetryStep ==
    (incr.pc = "done" /\ incr'.calls # incr.calls) =>
        /\ incr'.evt.kind \in {"Create", "Update"}
        /\ Len(incr'.calls) = 1
        /\ incr'.calls[1].op = "Get"
        /\ incr'.calls[1].node = incr'.evt.object

----------------------------------------------------------------------------
(* C33 *)

\* The payloads the pass p made for the node n.
PayloadsFor(p, n) ==
    {p.patches[i].patch : i \in {j \in 1..Len(p.patches) : p.patches[j].node.name = n}}

\* The Patch calls the pass p made for the node n.
PatchCallsFor(p, n) == SelectSeq(p.calls, LAMBDA c : c.op = "Patch" /\ c.node = n)

\* C33: with the TaintRemover objects fixed and no write by another actor,
\* when a full pass and a single-node pass for a stored node n, interleaved
\* in any way, have both returned, n was patched at most twice, every payload
\* made for n is one and the same list, the taints n had without those whose
\* (key, effect) is in the RemovalSet, and, one of the two passes having had
\* all its calls succeed, n holds exactly that list.
ConcurrentPassesAgree ==
    (/\ ext = 0
     /\ full.pc = "done"
     /\ incr.pc = "done"
     /\ incr.name \in DOMAIN nodes)
    => LET n == incr.name
           R == getAllTaintsToRemove(removers)
           P == PayloadsFor(full, n) \cup PayloadsFor(incr, n)
       IN  /\ Len(PatchCallsFor(full, n)) + Len(PatchCallsFor(incr, n)) <= 2
           /\ Cardinality(P) <= 1
           /\ \A i \in 1..Len(full.patches) :
                 full.patches[i].node.name = n
                    => full.patches[i].patch = Kept(full.patches[i].node.taints, R)
           /\ \A i \in 1..Len(incr.patches) :
                 incr.patches[i].patch = Kept(incr.patches[i].node.taints, R)
           /\ (AllCallsOk(full) \/ AllCallsOk(incr)) =>
                 /\ nodes[n] = Kept(nodes[n], R)
                 /\ \A new \in P : nodes[n] = new

\* Both passes read n1 with foo=bar and not-ready before either patched it,
\* and both patched it with the same payload: n1 holds not-ready.
ConcurrentPassesAgreeWitness ==
    /\ ext = 0
    /\ full.pc = "done"
    /\ incr.pc = "done"
    /\ incr.name = "n1"
    /\ Len(PatchCallsFor(full, "n1")) = 1
    /\ Len(PatchCallsFor(incr, "n1")) = 1
    /\ AllCallsOk(full)
    /\ AllCallsOk(incr)
    /\ incr.patches[1].node.taints = <<Taint("foo", "bar", "NoSchedule"),
                                       Taint("not-ready", "", "NoSchedule")>>
    /\ "n1" \in DOMAIN nodes
    /\ nodes["n1"] = <<Taint("not-ready", "", "NoSchedule")>>

----------------------------------------------------------------------------
(* C34 *)

\* What a call of Reconcile did and returned, its request left aside.
Outcome(p) == [p EXCEPT !.req = ""]

\* C34: two Reconcile calls from the same cluster state with any two request
\* names, that of a TaintRemover that is gone included, make the same List
\* and Patch calls and return the same; the taints to remove are those of
\* all the TaintRemover objects listed.
RequestIsIgnored ==
    /\ Outcome(full) = Outcome(incr)
    /\ ListedRemovers(full) => full.taints = getAllTaintsToRemove(removers)

\* The call for the second of two TaintRemover objects and the call for one
\* that is gone both removed the taint that only the first declares.
RequestIsIgnoredWitness ==
    /\ full.pc = "done"
    /\ incr.pc = "done"
    /\ full.req = "r2"
    /\ incr.req = "gone"
    /\ Len(removers) = 2
    /\ removers[1] = <<Taint("foo", "bar", "NoSchedule")>>
    /\ removers[2] = <<Taint("not-ready", "", "NoSchedule")>>
    /\ \E i \in 1..Len(full.calls) : full.calls[i] = Call("Patch", "n1", NoErr)
    /\ full.patches[1].node.taints = <<Taint("foo", "bar", "NoSchedule")>>
    /\ nodes["n1"] = << >>

----------------------------------------------------------------------------
(* C35 *)

\* The step is the return of a call of makeNewTaintsForNode or makePatches.
DiffCallStep ==
    /\ unit.fn \in {"makeNewTaintsForNode", "makePatches"}
    /\ unit'.out # unit.out

----------------------------------------------------------------------------
(* run of cmd/main.go: the bootstrap of the process *)

\* The steps of run, in the order of its text.
RunSteps ==
    <<"parseFlags", "getConfigFn", "managerFactory", "controllerSetupFn",
      "AddHealthzCheck", "AddReadyzCheck", "Start">>

\* The message run logs when a step fails.
RunMessages ==
    [parseFlags        |-> "failed to parse flags",
     getConfigFn       |-> "unable to get Kubernetes configuration",
     managerFactory    |-> "unable to start manager",
     controllerSetupFn |-> "unable to create controller",
     AddHealthzCheck   |-> "unable to set up health check",
     AddReadyzCheck    |-> "unable to set up ready check",
     Start             |-> "problem running manager"]

\* run has not returned.
Running == -1

\* What fs.Parse makes of the arguments: the flags, ErrHelp or another error.
ParseResults == {"ok", "help", "err"}

\* The arguments of run: the result of parsing them and the flags they set.
RunArgs ==
    [parse : ParseResults, enableHTTP2 : BOOLEAN, secureMetrics : BOOLEAN,
     enableLeaderElection : BOOLEAN]

\* The package variables controllerSetupFn and signalHandlerFn: a function
\* or nil.
Hooks == {"set", "nil"}

\* A call of run that has not started.
NoRun(args, setup, signal) ==
    [fn |-> "run", pc |-> "parseFlags", args |-> args,
     controllerSetupFn |-> setup, signalHandlerFn |-> signal,
     tlsOpts |-> << >>, handler |-> "none",
     log |-> << >>, errors |-> << >>, code |-> Running]

\* run going on after the step although it failed.
runStepIgnoringError(r, step, ok, next) ==
    [r EXCEPT !.pc = next, !.log = Append(@, [step |-> step, ok |-> ok])]

\* One step of run: on success run goes on to the next step, on failure it
\* logs the error and returns 1.
runStep(r, step, ok, next) ==
    IF ok
    THEN [r EXCEPT !.pc = next, !.log = Append(@, [step |-> step, ok |-> TRUE])]
    ELSE [r EXCEPT !.pc = "done", !.log = Append(@, [step |-> step, ok |-> FALSE]),
                   !.errors = Append(@, RunMessages[step]), !.code = 1]

\* cfg, err := parseFlags(args): on an error run returns 2, and logs it
\* unless it is ErrHelp; otherwise it sets the logger and builds the server
\* options from the flags.
RunParseFlags ==
    /\ unit.pc = "parseFlags"
    /\ unit' =
         IF unit.args.parse = "ok"
         THEN [unit EXCEPT !.pc = "getConfigFn",
                           !.log = Append(@, [step |-> "parseFlags", ok |-> TRUE]),
                           !.tlsOpts = IF unit.args.enableHTTP2 THEN << >>
                                       ELSE <<"disableHTTP2">>]
         ELSE [unit EXCEPT !.pc = "done",
                           !.log = Append(@, [step |-> "parseFlags", ok |-> FALSE]),
                           !.errors = IF unit.args.parse = "help" THEN @
                                      ELSE Append(@, RunMessages["parseFlags"]),
                           !.code = 2]
    /\ UNCHANGED <<nodes, removers, full, incr, ext>>

\* restCfg, err := getConfigFn()
RunGetConfig ==
    /\ unit.pc = "getConfigFn"
    /\ \E ok \in BOOLEAN : unit' = runStep(unit, "getConfigFn", ok, "managerFactory")
    /\ UNCHANGED <<nodes, removers, full, incr, ext>>

\* facade, _, err := managerFactory(restCfg, managerOpts): an error and a nil
\* facade both end run.
RunManagerFactory ==
    /\ unit.pc = "managerFactory"
    /\ \E res \in {"ok", "err", "nil"} :
          unit' = runStep(unit, "managerFactory", res = "ok", "controllerSetupFn")
    /\ UNCHANGED <<nodes, removers, full, incr, ext>>

\* if controllerSetupFn != nil { controllerSetupFn(facade) }
RunControllerSetup ==
    /\ unit.pc = "controllerSetupFn"
    /\ IF unit.controllerSetupFn = "nil"
       THEN unit' = [unit EXCEPT !.pc = "AddHealthzCheck"]
       ELSE \E ok \in BOOLEAN :
               unit' = runStep(unit, "controllerSetupFn", ok, "AddHealthzCheck")
    /\ UNCHANGED <<nodes, removers, full, incr, ext>>

\* facade.AddHealthzCheck("healthz", healthz.Ping)
RunAddHealthzCheck ==
    /\ unit.pc = "AddHealthzCheck"
    /\ \E ok \in BOOLEAN : unit' = runStep(unit, "AddHealthzCheck", ok, "AddReadyzCheck")
    /\ UNCHANGED <<nodes, removers, full, incr, ext>>

\* facade.AddReadyzCheck("readyz", healthz.Ping)
RunAddReadyzCheck ==
    /\ unit.pc = "AddReadyzCheck"
    /\ \E ok \in BOOLEAN : unit' = runStep(unit, "AddReadyzCheck", ok, "Start")
    /\ UNCHANGED <<nodes, removers, full, incr, ext>>

\* facade.Start(handler()), with ctrl.SetupSignalHandler for a nil
\* signalHandlerFn: run returns 0 when Start returns nil.
RunStart ==
    /\ unit.pc = "Start"
    /\ \E ok \in BOOLEAN :
          unit' = [runStep(unit, "Start", ok, "done") EXCEPT
                      !.handler = IF unit.signalHandlerFn = "nil"
                                  THEN "ctrl.SetupSignalHandler"
                                  ELSE "signalHandlerFn",
                      !.code = IF ok THEN 0 ELSE 1]
    /\ UNCHANGED <<nodes, removers, full, incr, ext>>

InitRun ==
    /\ nodes = << >>
    /\ removers = << >>
    /\ full = Idle
    /\ incr = Idle
    /\ ext = 0
    /\ unit \in {NoRun(args, setup, signal) :
                    args \in RunArgs, setup \in Hooks, signal \in Hooks}

NextRun ==
    \/ RunParseFlags
    \/ RunGetConfig
    \/ RunManagerFactory
    \/ RunControllerSetup
    \/ RunAddHealthzCheck
    \/ RunAddReadyzCheck
    \/ RunStart

SpecRun == InitRun /\ [][NextRun]_vars

----------------------------------------------------------------------------
(* C36 *)

\* The steps run has executed, in the order it executed them.
Executed == [i \in 1..Len(unit.log) |-> unit.log[i].step]

\* The first n elements of a sequence.
Prefix(s, n) == [i \in 1..n |-> s[i]]

\* The steps without the controller set-up.
StepsWithoutSetup == SelectSeq(RunSteps, LAMBDA st : st # "controllerSetupFn")

\* The steps of a run whose controllerSetupFn is nil or a function.
StepsOf(r) == IF r.controllerSetupFn = "nil" THEN StepsWithoutSetup ELSE RunSteps

\* No step but the last executed one has failed, and run has returned as
\* soon as one has.
EndsAtFirstFailure ==
    /\ \A i \in 1..Len(unit.log) : ~unit.log[i].ok => i = Len(unit.log)
    /\ (unit.log # << >> /\ ~unit.log[Len(unit.log)].ok) => unit.pc = "done"

\* The value run returns: 2 for failed flag parsing, 1 for another failed
\* step, 0 only when Start has returned nil; none before it returns.
ReturnCodes ==
    /\ unit.code = 2 <=> \E i \in 1..Len(unit.log) :
                            unit.log[i] = [step |-> "parseFlags", ok |-> FALSE]
    /\ unit.code = 1 <=> \E i \in 1..Len(unit.log) :
                            /\ unit.log[i].step # "parseFlags"
                            /\ ~unit.log[i].ok
    /\ unit.code = 0 <=> \E i \in 1..Len(unit.log) :
                            unit.log[i] = [step |-> "Start", ok |-> TRUE]
    /\ unit.code = Running <=> unit.pc # "done"

\* C36 as stated: the steps executed are the first steps of parse flags, get
\* cluster config, create manager, set up controller, add healthz, add
\* readyz, start; the first failing step ends run; run returns 2, 1 or 0 as
\* described.
BootstrapRunsEveryStep ==
    /\ Len(unit.log) <= Len(RunSteps)
    /\ Executed = Prefix(RunSteps, Len(unit.log))
    /\ EndsAtFirstFailure
    /\ ReturnCodes

\* C36: the steps executed are the first steps of parse flags, get cluster
\* config, create manager, set up controller unless controllerSetupFn is
\* nil, add healthz, add readyz, start; the first failing step ends run
\* without any later step; run returns 2 when flag parsing fails, 1 when
\* another step fails (a nil manager included) and 0 only when Start returned
\* nil, so Start is called only after every earlier step of the run
\* succeeded.
BootstrapSequence ==
    /\ Len(unit.log) <= Len(StepsOf(unit))
    /\ Executed = Prefix(StepsOf(unit), Len(unit.log))
    /\ EndsAtFirstFailure
    /\ ReturnCodes

\* run with a nil controllerSetupFn has returned 0 after six steps.
BootstrapSequenceWitness ==
    /\ unit.pc = "done"
    /\ unit.code = 0
    /\ unit.controllerSetupFn = "nil"
    /\ Executed = StepsWithoutSetup

----------------------------------------------------------------------------
(* C37 *)

\* C37: getAllTaintsToRemove never merges different pairs: a declared taint
\* is missing from the result only if an earlier declared taint has its key
\* and its effect, so every declared (key, effect) is in the result, also
\* for keys and effects that contain ':'.
DedupNeverMergesPairs ==
    CollectReturned =>
        LET flat == Declared(unit.items)
        IN  \A i \in 1..Len(flat) :
               \E k \in 1..Len(unit.out[1]) : Pair(unit.out[1][k]) = Pair(flat[i])

====
